---- MODULE Spec2Model ----
(***************************************************************************)
(* A model of itf.go: the markdown block parser, the diff-hunk corrector   *)
(* and the plan builder.                                                   *)
(*                                                                         *)
(* Text is a sequence of one-character strings, so that trimming,          *)
(* splitting, prefix tests and edit distances are computed, not assumed.   *)
(* A multi-line string holds "\n" characters like the Go string does.      *)
(***************************************************************************)
EXTENDS Integers, Sequences, FiniteSets, TLC

VARIABLES
    phase,          \* position of the run: which operation has acted
    sourceLines,    \* correctDiffHunks: the lines of the target file
    rawDiffContent, \* correctDiffHunks: the raw diff text
    corrected,      \* result of correctDiffHunks: [text, err]
    recorrected,    \* result of correcting corrected.text again
    written,        \* the hunks and header numbers the diff text was written from
    hint,           \* extractPathFromHint: the paragraph above a fenced block
    hintPath,       \* result of extractPathFromHint
    allBlocks,      \* CreatePlan: the fenced blocks ExtractCodeBlocks found
    extensions,     \* CreatePlan: the extension filter
    files,          \* the file system: absolute path -> content
    plan,           \* result of CreatePlan: the ExecutionPlan and the error
    trash,          \* the trash directory of the state folder: original path -> content
    dirs,           \* the directories made by CreateDirs that are on disk
    history,        \* State.History: the operations of each run
    currentIndex,   \* State.CurrentIndex: the entry last applied, -1 when none
    stateFile,      \* the state file state.itf as Manager.save left it
    editor,         \* Neovim: path -> the buffer and its undo history
    runs,           \* how many times Execute has run
    lastRun         \* what the last Execute did

fixVars == <<sourceLines, rawDiffContent, corrected, recorrected, written>>
hintVars == <<hint, hintPath>>
planVars == <<allBlocks, extensions, files, plan>>
stateVars == <<history, currentIndex>>
appVars == <<trash, dirs, stateVars, stateFile, editor, runs, lastRun>>
vars == <<phase, fixVars, hintVars, planVars, appVars>>

None == <<"none">>

\* The application is not part of the run
NoApp ==
    /\ trash = None /\ dirs = None /\ history = None /\ currentIndex = None
    /\ stateFile = None /\ editor = None /\ runs = None /\ lastRun = None

-----------------------------------------------------------------------------
(* Go's strings package, on sequences of characters.                       *)

IsSpace(c) == c \in {" ", "\t", "\n", "\r"}

RECURSIVE TrimLeftSpace(_)
TrimLeftSpace(s) ==
    IF s = <<>> THEN s
    ELSE IF IsSpace(Head(s)) THEN TrimLeftSpace(Tail(s)) ELSE s

RECURSIVE TrimRightSpace(_)
TrimRightSpace(s) ==
    IF s = <<>> THEN s
    ELSE IF IsSpace(s[Len(s)]) THEN TrimRightSpace(SubSeq(s, 1, Len(s) - 1)) ELSE s

TrimSpace(s) == TrimRightSpace(TrimLeftSpace(s))

HasPrefix(s, p) == Len(s) >= Len(p) /\ SubSeq(s, 1, Len(p)) = p

\* strings.Split(s, "\n"): always at least one element.
RECURSIVE SplitAcc(_, _, _)
SplitAcc(s, cur, acc) ==
    IF s = <<>> THEN Append(acc, cur)
    ELSE IF Head(s) = "\n" THEN SplitAcc(Tail(s), <<>>, Append(acc, cur))
    ELSE SplitAcc(Tail(s), Append(cur, Head(s)), acc)

SplitLines(s) == SplitAcc(s, <<>>, <<>>)

\* strings.Fields(s): the maximal runs of non-space characters.
RECURSIVE FieldsAcc(_, _, _)
FieldsAcc(s, cur, acc) ==
    IF s = <<>> THEN (IF cur = <<>> THEN acc ELSE Append(acc, cur))
    ELSE IF IsSpace(Head(s))
         THEN FieldsAcc(Tail(s), <<>>, IF cur = <<>> THEN acc ELSE Append(acc, cur))
         ELSE FieldsAcc(Tail(s), Append(cur, Head(s)), acc)

Fields(s) == FieldsAcc(s, <<>>, <<>>)

\* strings.Join(parts, sep)
RECURSIVE Join(_, _)
Join(parts, sep) ==
    IF parts = <<>> THEN <<>>
    ELSE IF Len(parts) = 1 THEN parts[1]
    ELSE parts[1] \o sep \o Join(Tail(parts), sep)

\* strings.Join(parts, "") of parts that each end in "\n"
RECURSIVE Concat(_)
Concat(parts) == IF parts = <<>> THEN <<>> ELSE Head(parts) \o Concat(Tail(parts))

Max(a, b) == IF a >= b THEN a ELSE b
Min(a, b) == IF a <= b THEN a ELSE b

-----------------------------------------------------------------------------
(* internal/patcher/diff-fix.go                                            *)

\* similarityThreshold = 0.8, as the fraction ThresholdNum / ThresholdDen
ThresholdNum == 4
ThresholdDen == 5

getTargetBlock(diff) ==
    LET isTarget(line) ==
            /\ (HasPrefix(line, <<"-">>) \/ HasPrefix(line, <<" ">>))
            /\ TrimSpace(Tail(line)) # <<>>
    IN  [i \in 1..Len(SelectSeq(diff, isTarget)) |-> Tail(SelectSeq(diff, isTarget)[i])]

normalizeLineForMatching(line) == Join(Fields(line), <<" ">>)

\* One row of the dynamic-programming matrix from the row above it.
RECURSIVE LevRow(_, _, _, _, _)
LevRow(prev, ch, s2, j, row) ==
    IF j > Len(s2) THEN row
    ELSE LET cost == IF ch = s2[j] THEN 0 ELSE 1
             del  == prev[j + 1] + 1
             ins  == row[j] + 1
             sub  == prev[j] + cost
         IN  LevRow(prev, ch, s2, j + 1, Append(row, Min(Min(del, ins), sub)))

RECURSIVE LevRows(_, _, _, _)
LevRows(s1, s2, i, prev) ==
    IF i > Len(s1) THEN prev[Len(s2) + 1]
    ELSE LevRows(s1, s2, i + 1, LevRow(prev, s1[i], s2, 1, <<i>>))

levenshteinDistance(a, b) ==
    IF Len(a) = 0 THEN Len(b)
    ELSE IF Len(b) = 0 THEN Len(a)
    ELSE LevRows(a, b, 1, [j \in 1..(Len(b) + 1) |-> j - 1])

\* A score is the exact fraction <<numerator, denominator>>, denominator > 0.
lineSimilarity(a, b) ==
    IF Len(a) = 0 /\ Len(b) = 0 THEN <<1, 1>>
    ELSE <<Max(Len(a), Len(b)) - levenshteinDistance(a, b), Max(Len(a), Len(b))>>

FracAdd(p, q) == <<p[1] * q[2] + q[1] * p[2], p[2] * q[2]>>
FracGt(p, q) == p[1] * q[2] > q[1] * p[2]
FracGe(p, q) == p[1] * q[2] >= q[1] * p[2]

\* The source without its blank lines, each kept line with its 1-based number.
filteredSource(source) ==
    LET keep == SelectSeq([i \in 1..Len(source) |-> i],
                          LAMBDA i : normalizeLineForMatching(source[i]) # <<>>)
    IN  [k \in 1..Len(keep) |->
            [line |-> normalizeLineForMatching(source[keep[k]]), number |-> keep[k]]]

RECURSIVE windowScore(_, _, _, _)
windowScore(filtered, normalizedBlock, i, j) ==
    IF j > Len(normalizedBlock) THEN <<0, 1>>
    ELSE FracAdd(lineSimilarity(filtered[i + j - 1].line, normalizedBlock[j]),
                 windowScore(filtered, normalizedBlock, i, j + 1))

\* The sliding window: best is [score, line], replaced on a strictly better average.
RECURSIVE bestWindow(_, _, _, _)
bestWindow(filtered, normalizedBlock, i, best) ==
    IF i > Len(filtered) - Len(normalizedBlock) + 1 THEN best
    ELSE LET total == windowScore(filtered, normalizedBlock, i, 1)
             avg   == <<total[1], total[2] * Len(normalizedBlock)>>
         IN  bestWindow(filtered, normalizedBlock, i + 1,
                        IF FracGt(avg, best.score)
                        THEN [score |-> avg, line |-> filtered[i].number]
                        ELSE best)

\* The line of the best window when its score reaches the threshold
bestMatchLine(best) ==
    IF FracGe(best.score, <<ThresholdNum, ThresholdDen>>) THEN best.line ELSE -1

\* matchBlock on the filtered source and the normalized block
matchFiltered(filtered, normalizedBlock) ==
    IF Len(filtered) < Len(normalizedBlock) THEN -1
    ELSE bestMatchLine(bestWindow(filtered, normalizedBlock, 1,
                                  [score |-> <<-1, 1>>, line |-> -1]))

\* A slip: an empty block is taken to match at the top of the file.
matchBlockEmptyAtTop(source, block) ==
    IF Len(block) = 0 THEN 1
    ELSE matchFiltered(filteredSource(source),
                       [i \in 1..Len(block) |-> normalizeLineForMatching(block[i])])

matchBlock(source, block) ==
    IF Len(block) = 0 THEN -1
    ELSE matchFiltered(filteredSource(source),
                       [i \in 1..Len(block) |-> normalizeLineForMatching(block[i])])

\* fmt's %d
Digits(n) == ToString(n)

buildHunkHeader(oldStart, oldLines, newStart, newLines) ==
    <<"@", "@", " ", "-", Digits(oldStart), ",", Digits(oldLines), " ",
      "+", Digits(newStart), ",", Digits(newLines), " ", "@", "@", "\n">>

RECURSIVE parseAcc(_, _, _, _)
parseAcc(diffLines, k, hunks, currentHunk) ==
    IF k > Len(diffLines)
    THEN (IF Len(currentHunk) > 0 THEN Append(hunks, currentHunk) ELSE hunks)
    ELSE LET line == diffLines[k] IN
         IF HasPrefix(line, <<"-", "-", "-">>) \/ HasPrefix(line, <<"+", "+", "+">>)
         THEN parseAcc(diffLines, k + 1, hunks, currentHunk)
         ELSE IF HasPrefix(line, <<"@", "@">>)
         THEN parseAcc(diffLines, k + 1,
                       IF Len(currentHunk) > 0 THEN Append(hunks, currentHunk) ELSE hunks,
                       <<>>)
         ELSE IF HasPrefix(line, <<"+">>) \/ HasPrefix(line, <<"-">>) \/ HasPrefix(line, <<" ">>)
         THEN parseAcc(diffLines, k + 1, hunks, Append(currentHunk, line))
         ELSE parseAcc(diffLines, k + 1, hunks, currentHunk)

parseDiffToHunks(diffLines) == parseAcc(diffLines, 1, <<>>, <<>>)

addCount(hunk) == Len(SelectSeq(hunk, LAMBDA l : HasPrefix(l, <<"+">>)))
removeCount(hunk) == Len(SelectSeq(hunk, LAMBDA l : HasPrefix(l, <<"-">>)))
contextCount(hunk) == Len(hunk) - addCount(hunk) - removeCount(hunk)
hunkOldLines(hunk) == contextCount(hunk) + removeCount(hunk)
hunkNewLines(hunk) == contextCount(hunk) + addCount(hunk)

\* A slip: the error is returned with the text built so far.
hunkNotFoundKeepsParts(parts) == [text |-> Concat(parts), err |-> TRUE]

\* What to do with a hunk that cannot be located: the whole diff fails.
hunkNotFound(parts) == [text |-> <<>>, err |-> TRUE]

\* A slip: newStart is oldStart, the size changes of the earlier hunks are not added.
writeHunkNoOffset(parts, hunk, oldStart, offset) ==
    (parts \o <<buildHunkHeader(oldStart, hunkOldLines(hunk), oldStart, hunkNewLines(hunk))>>)
        \o [i \in 1..Len(hunk) |-> Append(hunk[i], "\n")]

\* The header and the lines of a located hunk, appended to the emitted lines
writeHunk(parts, hunk, oldStart, offset) ==
    (parts \o <<buildHunkHeader(oldStart, hunkOldLines(hunk),
                                oldStart + offset, hunkNewLines(hunk))>>)
        \o [i \in 1..Len(hunk) |-> Append(hunk[i], "\n")]

\* The loop over the hunks: parts are the emitted lines, offset is lineDiffOffset.
\* correctHunk is the body of the loop for the hunk at k, found at oldStart.
RECURSIVE correctLoop(_, _, _, _, _)
RECURSIVE correctHunk(_, _, _, _, _, _)
correctHunk(source, hunks, k, parts, offset, oldStart) ==
    IF oldStart = -1 THEN hunkNotFound(parts)
    ELSE correctLoop(source, hunks, k + 1, writeHunk(parts, hunks[k], oldStart, offset),
                     offset + hunkNewLines(hunks[k]) - hunkOldLines(hunks[k]))

correctLoop(source, hunks, k, parts, offset) ==
    IF k > Len(hunks) THEN [text |-> Concat(parts), err |-> FALSE]
    ELSE correctHunk(source, hunks, k, parts, offset,
                     matchBlock(source, getTargetBlock(hunks[k])))

correctDiffHunks(source, rawDiff, sourceFilePath) ==
    LET hunks == parseDiffToHunks(SplitLines(rawDiff))
    IN  IF Len(hunks) = 0 THEN [text |-> <<>>, err |-> FALSE]
        ELSE correctLoop(source, hunks, 1,
                         << <<"-", "-", "-", " ", "a", "/">> \o sourceFilePath \o <<"\n">>,
                            <<"+", "+", "+", " ", "b", "/">> \o sourceFilePath \o <<"\n">> >>,
                         0)

-----------------------------------------------------------------------------
(* internal/parser/parser.go: hints and extensions                         *)

NoMatch == <<"nomatch">>

\* The backquote character U+0060 (a TLA+ string cannot hold it).
Backtick == "BQ"

\* Index of the first character of s at or after i that is in stop, or 0.
RECURSIVE IndexOfAny(_, _, _)
IndexOfAny(s, i, stop) ==
    IF i > Len(s) THEN 0
    ELSE IF s[i] \in stop THEN i ELSE IndexOfAny(s, i + 1, stop)

\* The pattern (backtick, one or more characters that are neither backtick nor
\* line break, backtick) tried at position i of s: the capture, or NoMatch.
spanAt(s, i) ==
    IF i > Len(s) \/ s[i] # Backtick THEN NoMatch
    ELSE LET j == IndexOfAny(s, i + 1, {Backtick, "\n"})
         IN  IF j = 0 \/ j = i + 1 \/ s[j] # Backtick THEN NoMatch
             ELSE SubSeq(s, i + 1, j - 1)

\* An earlier form of the pattern, without "^": the leftmost span anywhere.
RECURSIVE spanAnywhere(_, _)
spanAnywhere(s, i) ==
    IF i > Len(s) THEN NoMatch
    ELSE IF spanAt(s, i) # NoMatch THEN spanAt(s, i) ELSE spanAnywhere(s, i + 1)

pathInHintRegexUnanchored(s) == spanAnywhere(s, 1)

\* pathInHintRegex, anchored at the start of s: the first group, or NoMatch.
pathInHintRegex(s) == spanAt(s, 1)

Contains(s, c) == \E i \in 1..Len(s) : s[i] = c

extractPathFromHint(h) ==
    LET match == pathInHintRegex(TrimSpace(h))
    IN  IF match # NoMatch /\ ~Contains(TrimSpace(match), " ")
        THEN TrimSpace(match)
        ELSE <<>>

-----------------------------------------------------------------------------
(* The inputs of the diff corrector.                                       *)

MaxSrc == 2     \* most lines in the target file
MaxHdr == 2     \* largest line number written in an input hunk header

\* All sequences over S of length lo..hi
SeqsOf(S, lo, hi) == UNION {[1..n -> S] : n \in lo..hi}

SrcLinePool == {<<"a">>, <<"b">>, <<>>}

BodyLinePool == {<<" ", "a">>, <<"-", "a">>, <<"+", "b">>, <<" ">>}

\* A hunk that removes the line "a" and the line "--" after it
DashHunk == << <<"-", "a">>, <<"-", "-", "-">> >>

HunkPool == SeqsOf(BodyLinePool, 1, 2) \cup {DashHunk}

FixPath == <<"f", ".", "g", "o">>

\* The text of a unified diff as an LLM writes it: the hunk bodies with the
\* header start numbers starts[i] (the counts are the body's own).
\* Header start numbers of hunks written one after the other from line start.
RECURSIVE adjacentStarts(_, _, _)
adjacentStarts(hunks, k, start) ==
    IF k > Len(hunks) THEN <<>>
    ELSE <<start>> \o adjacentStarts(hunks, k + 1, start + hunkOldLines(hunks[k]))

RECURSIVE hunkTexts(_, _, _, _)
hunkTexts(hunks, starts, k, offset) ==
    IF k > Len(hunks) THEN <<>>
    ELSE <<buildHunkHeader(starts[k], hunkOldLines(hunks[k]),
                           starts[k] + offset, hunkNewLines(hunks[k]))>>
         \o [i \in 1..Len(hunks[k]) |-> Append(hunks[k][i], "\n")]
         \o hunkTexts(hunks, starts, k + 1,
                      offset + hunkNewLines(hunks[k]) - hunkOldLines(hunks[k]))

DiffText(path, hunks, starts) ==
    Concat(<< <<"-", "-", "-", " ", "a", "/">> \o path \o <<"\n">>,
              <<"+", "+", "+", " ", "b", "/">> \o path \o <<"\n">> >>
           \o hunkTexts(hunks, starts, 1, 0))

FixInit ==
    /\ phase = "fix_input"
    /\ sourceLines \in SeqsOf(SrcLinePool, 0, MaxSrc)
    /\ \E hunks \in SeqsOf(HunkPool, 1, 2) : \E start \in 1..MaxHdr :
           /\ written = [hunks |-> hunks, starts |-> adjacentStarts(hunks, 1, start)]
           /\ rawDiffContent = TrimSpace(DiffText(FixPath, hunks, written.starts))
    /\ corrected = None
    /\ recorrected = None
    /\ hint = None /\ hintPath = None
    /\ allBlocks = None /\ extensions = None /\ files = None /\ plan = None
    /\ NoApp

\* patcher.CorrectDiff on the lines read from the target file
FixCorrect ==
    /\ phase = "fix_input"
    /\ corrected' = correctDiffHunks(sourceLines, rawDiffContent, FixPath)
    /\ phase' = "fix_corrected"
    /\ UNCHANGED <<sourceLines, rawDiffContent, recorrected, written, hintVars, planVars, appVars>>

\* the corrected diff given to the corrector again
FixRecorrect ==
    /\ phase = "fix_corrected"
    /\ ~corrected.err
    /\ recorrected' = correctDiffHunks(sourceLines, corrected.text, FixPath)
    /\ phase' = "fix_recorrected"
    /\ UNCHANGED <<sourceLines, rawDiffContent, corrected, written, hintVars, planVars, appVars>>

FixNext == FixCorrect \/ FixRecorrect

SpecFix == FixInit /\ [][FixNext]_vars

-----------------------------------------------------------------------------
(* Reading a diff as its reader does: the old side of a hunk, the regions  *)
(* of a file, the numbers of the "@@" lines of a text.                     *)

\* The lines a hunk expects in the file: context and removed lines, unprefixed.
OldSide(hunk) ==
    LET old == SelectSeq(hunk, LAMBDA l : Head(l) \in {" ", "-"})
    IN  [i \in 1..Len(old) |-> Tail(old[i])]

\* block is the run of lines of source that begins at line r
RegionAt(source, r, block) ==
    /\ r >= 1
    /\ r + Len(block) - 1 <= Len(source)
    /\ SubSeq(source, r, r + Len(block) - 1) = block

ParseNum(tok) == CHOOSE n \in -1..(2 * (MaxSrc + MaxHdr) + 8) : ToString(n) = tok

\* <<oldStart, oldLines, newStart, newLines>> of every "@@" line of text
Headers(text) ==
    LET hs == SelectSeq(SplitLines(text), LAMBDA l : HasPrefix(l, <<"@", "@">>))
    IN  [k \in 1..Len(hs) |->
            <<ParseNum(hs[k][5]), ParseNum(hs[k][7]), ParseNum(hs[k][10]), ParseNum(hs[k][12])>>]

\* The body lines under the k-th "@@" line of text
Bodies(text) == parseDiffToHunks(SplitLines(text))

-----------------------------------------------------------------------------
(* Claims about the diff corrector (SpecFix).                              *)

\* Every hunk has a non-blank context or removed line, and its context and
\* removed lines are the lines of exactly one region of the file.
WrittenMatchesFile ==
    \A k \in 1..Len(written.hunks) :
        /\ \E i \in 1..Len(OldSide(written.hunks[k])) : OldSide(written.hunks[k])[i] # <<>>
        /\ Cardinality({r \in 1..Len(sourceLines) :
                           RegionAt(sourceLines, r, OldSide(written.hunks[k]))}) = 1

\* C2: when the context and removed lines of every hunk exactly match a region
\* of the file, the corrected oldStart of each hunk is the line where such a
\* region begins, whatever numbers the input headers carry.
C2_OldStartIsRegionStart ==
    (phase = "fix_corrected" /\ WrittenMatchesFile) =>
        /\ ~corrected.err
        /\ Len(Headers(corrected.text)) = Len(written.hunks)
        /\ \A k \in 1..Len(written.hunks) :
               RegionAt(sourceLines, Headers(corrected.text)[k][1], OldSide(written.hunks[k]))

\* The header numbers written in the input are right for the file: every hunk's
\* context and removed lines are the file's lines from the written oldStart on.
AlreadyCorrect ==
    \A k \in 1..Len(written.hunks) :
        /\ \E i \in 1..Len(OldSide(written.hunks[k])) : OldSide(written.hunks[k])[i] # <<>>
        /\ RegionAt(sourceLines, written.starts[k], OldSide(written.hunks[k]))

\* C3: in a corrected diff of several hunks the oldStart values are strictly
\* increasing: hunk k+1 is searched for past the lines matched by hunk k.
C3_OldStartsIncrease ==
    (phase = "fix_corrected" /\ AlreadyCorrect /\ ~corrected.err) =>
        \A k \in 1..(Len(Headers(corrected.text)) - 1) :
            Headers(corrected.text)[k + 1][1] > Headers(corrected.text)[k][1]

\* C4: correcting a diff whose headers are already right for the file gives
\* the same oldStart, oldLines, newStart and newLines in every header.
C4_CorrectDiffKeepsHeaders ==
    (phase = "fix_corrected" /\ AlreadyCorrect) =>
        /\ ~corrected.err
        /\ Headers(corrected.text) = Headers(rawDiffContent)

SomeHunkNotLocated ==
    \E k \in 1..Len(Bodies(rawDiffContent)) :
        matchBlock(sourceLines, getTargetBlock(Bodies(rawDiffContent)[k])) = -1

-----------------------------------------------------------------------------
(* extractPathFromHint on every short hint (SpecHint).                     *)

MaxHint == 5    \* most characters in a hint

HintChars == {Backtick, " ", "\t", "\n", "a"}

HintInit ==
    /\ phase = "hint_input"
    /\ hint \in SeqsOf(HintChars, 0, MaxHint)
    /\ hintPath = None
    /\ sourceLines = None /\ rawDiffContent = None /\ corrected = None
    /\ recorrected = None /\ written = None
    /\ allBlocks = None /\ extensions = None /\ files = None /\ plan = None
    /\ NoApp

HintExtract ==
    /\ phase = "hint_input"
    /\ hintPath' = extractPathFromHint(hint)
    /\ phase' = "hint_done"
    /\ UNCHANGED <<hint, fixVars, planVars, appVars>>

HintNext == HintExtract

SpecHint == HintInit /\ [][HintNext]_vars

\* s without its leading and trailing white space, said without recursion
Trimmed(s) ==
    LET keep == {i \in 1..Len(s) : ~IsSpace(s[i])}
    IN  IF keep = {} THEN <<>>
        ELSE SubSeq(s, CHOOSE i \in keep : \A k \in keep : i <= k,
                       CHOOSE j \in keep : \A k \in keep : k <= j)

\* Positions i < j of two backticks of s with at least one character and no
\* backtick or line break between them.
IsSpan(s, i, j) ==
    /\ i \in 1..Len(s) /\ j \in 1..Len(s) /\ j > i + 1
    /\ s[i] = Backtick /\ s[j] = Backtick
    /\ \A k \in (i + 1)..(j - 1) : s[k] \notin {Backtick, "\n"}

SpanText(s, i, j) == Trimmed(SubSeq(s, i + 1, j - 1))

\* The hint contains a span whose text has no white space inside it.
HasCleanSpan(s) ==
    \E i, j \in 1..Len(s) :
        /\ IsSpan(s, i, j)
        /\ SpanText(s, i, j) # <<>>
        /\ \A k \in 1..Len(SpanText(s, i, j)) : ~IsSpace(SpanText(s, i, j)[k])

-----------------------------------------------------------------------------
(* path/filepath and internal/fs/fs.go                                     *)

\* strings.Split(s, sep) for a separator of one character
RECURSIVE SplitOn(_, _, _, _)
SplitOn(s, sep, cur, acc) ==
    IF s = <<>> THEN Append(acc, cur)
    ELSE IF Head(s) = sep THEN SplitOn(Tail(s), sep, <<>>, Append(acc, cur))
    ELSE SplitOn(Tail(s), sep, Append(cur, Head(s)), acc)

\* The elements of a rooted path with "", "." and ".." worked out.
RECURSIVE cleanAcc(_, _, _)
cleanAcc(parts, k, out) ==
    IF k > Len(parts) THEN out
    ELSE IF parts[k] = <<>> \/ parts[k] = <<".">> THEN cleanAcc(parts, k + 1, out)
    ELSE IF parts[k] = <<".", ".">>
    THEN cleanAcc(parts, k + 1, IF out = <<>> THEN out ELSE SubSeq(out, 1, Len(out) - 1))
    ELSE cleanAcc(parts, k + 1, Append(out, parts[k]))

\* filepath.Clean of a rooted path
Clean(path) ==
    LET out == cleanAcc(SplitOn(path, "/", <<>>, <<>>), 1, <<>>)
    IN  IF out = <<>> THEN <<"/">>
        ELSE Concat([i \in 1..Len(out) |-> <<"/">> \o out[i]])

\* filepath.Join(dir, rel) for a rooted dir
JoinPath(dir, rel) == Clean((dir \o <<"/">>) \o rel)

\* filepath.Ext: from the last dot of the last element
Ext(path) ==
    LET dots == {i \in 1..Len(path) :
                    /\ path[i] = "."
                    /\ \A k \in (i + 1)..Len(path) : path[k] \notin {".", "/"}
                    /\ \A k \in i..Len(path) : path[k] # "/"}
    IN  IF dots = {} THEN <<>>
        ELSE SubSeq(path, CHOOSE i \in dots : TRUE, Len(path))

\* filepath.Dir
Dir(path) ==
    LET slashes == {i \in 1..Len(path) : path[i] = "/"}
    IN  IF slashes = {} THEN <<".">>
        ELSE Clean(SubSeq(path, 1, CHOOSE i \in slashes : \A k \in slashes : k <= i))

\* PathResolver.lookupDirs: the first is where new files go
lookupDirs == << <<"/", "w">>, <<"/", "x">> >>

\* A directory is there when it is the root, a lookup directory or above a file.
DirExists(fsys, d) ==
    \/ d = <<"/">>
    \/ \E i \in 1..Len(lookupDirs) : lookupDirs[i] = d
    \/ \E f \in DOMAIN fsys : HasPrefix(f, d \o <<"/">>)

\* os.Stat(path) returns no error
Stat(fsys, path) == path \in DOMAIN fsys \/ DirExists(fsys, path)

RECURSIVE resolveFrom(_, _, _)
resolveFrom(fsys, relativePath, i) ==
    IF i > Len(lookupDirs) THEN <<>>
    ELSE IF Stat(fsys, JoinPath(lookupDirs[i], relativePath))
    THEN JoinPath(lookupDirs[i], relativePath)
    ELSE resolveFrom(fsys, relativePath, i + 1)

ResolveExisting(fsys, relativePath) == resolveFrom(fsys, relativePath, 1)

Resolve(fsys, relativePath) ==
    IF ResolveExisting(fsys, relativePath) # <<>>
    THEN ResolveExisting(fsys, relativePath)
    ELSE JoinPath(lookupDirs[1], relativePath)

\* A slip: the parent of every new file is to be created, there or not.
GetFileActionsAndDirsNoStat(fsys, targetPaths) ==
    LET paths == {targetPaths[i] : i \in 1..Len(targetPaths)}
    IN  [actions |-> [p \in paths |-> IF Stat(fsys, p) THEN "modify" ELSE "create"],
         dirs    |-> {Dir(p) : p \in {q \in paths :
                                         /\ ~Stat(fsys, q)
                                         /\ Dir(q) \notin {<<".">>, <<"/">>}}}]

\* fs.GetFileActionsAndDirs: [actions, dirs]
GetFileActionsAndDirs(fsys, targetPaths) ==
    LET paths == {targetPaths[i] : i \in 1..Len(targetPaths)}
    IN  [actions |-> [p \in paths |-> IF Stat(fsys, p) THEN "modify" ELSE "create"],
         dirs    |-> {Dir(p) : p \in {q \in paths :
                                         /\ ~Stat(fsys, q)
                                         /\ Dir(q) \notin {<<".">>, <<"/">>}
                                         /\ ~Stat(fsys, Dir(q))}}]

-----------------------------------------------------------------------------
(* internal/parser/parser.go: the blocks of a document                     *)

hasAllowedExtension(path, exts) ==
    \/ Len(exts) = 0
    \/ \E i \in 1..Len(exts) : Ext(path) = exts[i]

\* A slip: diff-only mode whenever ".diff" is among the extensions.
isDiffOnlyModeContains(exts) ==
    \E i \in 1..Len(exts) : exts[i] = <<".", "d", "i", "f", "f">>

isDiffOnlyMode(exts) == Len(exts) = 1 /\ exts[1] = <<".", "d", "i", "f", "f">>

\* strings.TrimRight(s, "\n")
RECURSIVE TrimRightNewlines(_)
TrimRightNewlines(s) ==
    IF s # <<>> /\ s[Len(s)] = "\n" THEN TrimRightNewlines(SubSeq(s, 1, Len(s) - 1))
    ELSE s

\* A slip: the block without "Handle empty blocks correctly".
fileBlockLinesKeepEmpty(content) == SplitLines(TrimRightNewlines(content))

\* The content lines of a file block
fileBlockLines(content) ==
    LET lines == SplitLines(TrimRightNewlines(content))
    IN  IF Len(lines) = 1 /\ lines[1] = <<>> THEN <<>> ELSE lines

RECURSIVE parseFileBlocksFrom(_, _, _, _)
parseFileBlocksFrom(fsys, blocks, exts, k) ==
    IF k > Len(blocks) THEN <<>>
    ELSE LET block    == blocks[k]
             filePath == extractPathFromHint(block.Hint)
             rest     == parseFileBlocksFrom(fsys, blocks, exts, k + 1)
         IN  IF block.Lang = <<"d", "i", "f", "f">> THEN rest
             ELSE IF filePath = <<>> THEN rest
             ELSE IF ~hasAllowedExtension(filePath, exts) THEN rest
             ELSE <<[Path     |-> Resolve(fsys, filePath),
                     Content  |-> fileBlockLines(block.Content),
                     Source   |-> "codeblock",
                     RawBlock |-> <<>>]>> \o rest

parseFileBlocks(fsys, blocks, exts) == parseFileBlocksFrom(fsys, blocks, exts, 1)

\* filePathRegex: the text after "+++ b/" on the first line that begins so,
\* up to the first white space or the end; NoMatch without such a line.
filePathRegex(content) ==
    LET lines == SplitLines(content)
        hits  == {i \in 1..Len(lines) : HasPrefix(lines[i], <<"+", "+", "+", " ", "b", "/">>)}
    IN  IF hits = {} THEN NoMatch
        ELSE LET line == lines[CHOOSE i \in hits : \A k \in hits : i <= k]
                 stop == IndexOfAny(line, 7, {" ", "\t", "\r"})
             IN  IF stop = 0 THEN SubSeq(line, 7, Len(line))
                 ELSE SubSeq(line, 7, stop - 1)

ExtractPathFromDiff(content) ==
    IF filePathRegex(content) # NoMatch THEN TrimSpace(filePathRegex(content)) ELSE <<>>

\* A slip: a diff block without a path is kept, with the empty path.
RECURSIVE extractDiffBlocksKeepPathless(_, _)
extractDiffBlocksKeepPathless(blocks, k) ==
    IF k > Len(blocks) THEN <<>>
    ELSE IF blocks[k].Lang # <<"d", "i", "f", "f">>
    THEN extractDiffBlocksKeepPathless(blocks, k + 1)
    ELSE <<[FilePath   |-> ExtractPathFromDiff(TrimSpace(blocks[k].Content)),
            RawContent |-> TrimSpace(blocks[k].Content)]>>
         \o extractDiffBlocksKeepPathless(blocks, k + 1)

RECURSIVE extractDiffBlocksFrom(_, _)
extractDiffBlocksFrom(blocks, k) ==
    IF k > Len(blocks) THEN <<>>
    ELSE LET block      == blocks[k]
             rawContent == TrimSpace(block.Content)
             filePath   == ExtractPathFromDiff(rawContent)
             rest       == extractDiffBlocksFrom(blocks, k + 1)
         IN  IF block.Lang # <<"d", "i", "f", "f">> THEN rest
             ELSE IF filePath = <<>> THEN rest
             ELSE <<[FilePath |-> filePath, RawContent |-> rawContent]>> \o rest

extractDiffBlocksFromParsed(blocks) == extractDiffBlocksFrom(blocks, 1)

-----------------------------------------------------------------------------
(* The patch program that applyPatch runs (GNU patch, unified diffs):      *)
(*   patch -s -p1 --no-backup-if-mismatch -r /dev/null -o - sourcePath     *)
(* A hunk is looked for at its header line plus the offset of the hunk     *)
(* before it, then at growing distances, then with context lines ignored   *)
(* (fuzz). The run fails when a hunk is malformed, not found, found only   *)
(* reversed, or found behind a line already written.                       *)

MaxFuzz == 2    \* the fuzz factor of patch when -F is not given

\* The lines of a file whose lines end in a line break
FileLines(text) ==
    LET ls == SplitLines(text)
    IN  IF ls[Len(ls)] = <<>> THEN SubSeq(ls, 1, Len(ls) - 1) ELSE ls

\* A line number of a hunk header
PatchNum(tok) == CHOOSE n \in -16..64 : ToString(n) = tok

\* The hunks of a patch text: [first, newfirst, body]
RECURSIVE patchHunksAcc(_, _, _)
patchHunksAcc(lines, k, hunks) ==
    IF k > Len(lines) THEN hunks
    ELSE IF HasPrefix(lines[k], <<"@", "@">>)
    THEN patchHunksAcc(lines, k + 1,
                       Append(hunks, [first    |-> PatchNum(lines[k][5]),
                                      newfirst |-> PatchNum(lines[k][10]),
                                      body     |-> <<>>]))
    ELSE IF hunks # <<>> /\ lines[k] # <<>> /\ Head(lines[k]) \in {" ", "+", "-"}
    THEN patchHunksAcc(lines, k + 1,
                       [hunks EXCEPT ![Len(hunks)].body = Append(@, lines[k])])
    ELSE patchHunksAcc(lines, k + 1, hunks)

patchHunks(text) == patchHunksAcc(FileLines(text), 1, <<>>)

\* The pattern (old) and the replacement (new) lines of a hunk body
ptrn(body) ==
    LET old == SelectSeq(body, LAMBDA l : Head(l) \in {" ", "-"})
    IN  [i \in 1..Len(old) |-> Tail(old[i])]

repl(body) ==
    LET new == SelectSeq(body, LAMBDA l : Head(l) \in {" ", "+"})
    IN  [i \in 1..Len(new) |-> Tail(new[i])]

\* Number of context lines at the start and at the end of a hunk body
prefix_context(body) ==
    LET changed == {i \in 1..Len(body) : Head(body[i]) # " "}
    IN  IF changed = {} THEN Len(body)
        ELSE (CHOOSE i \in changed : \A k \in changed : i <= k) - 1

suffix_context(body) ==
    LET changed == {i \in 1..Len(body) : Head(body[i]) # " "}
    IN  IF changed = {} THEN Len(body)
        ELSE Len(body) - (CHOOSE i \in changed : \A k \in changed : k <= i)

\* The pattern, less prefix_fuzz lines at its start and suffix_fuzz lines at
\* its end, is in the input with its first line at line where.
patch_match(input, pat, where, prefix_fuzz, suffix_fuzz) ==
    \A k \in (1 + prefix_fuzz)..(Len(pat) - suffix_fuzz) :
        /\ where + k - 1 \in 1..Len(input)
        /\ input[where + k - 1] = pat[k]

\* The scan of locate_hunk over the offsets, forward then backward.
RECURSIVE scan_offsets(_, _, _, _)
scan_offsets(input, pat, q, offset) ==
    IF offset > q.max_offset THEN 0
    ELSE IF /\ offset <= q.max_pos_offset
            /\ patch_match(input, pat, q.first_guess + offset, q.prefix_fuzz, q.suffix_fuzz)
    THEN q.first_guess + offset
    ELSE IF /\ offset <= q.max_neg_offset
            /\ patch_match(input, pat, q.first_guess - offset, q.prefix_fuzz, q.suffix_fuzz)
    THEN q.first_guess - offset
    ELSE scan_offsets(input, pat, q, offset + 1)

\* locate_hunk: the line the pattern is found at, or 0.
locate_hunk(input, pat, pch_first, prefix_ctx, suffix_ctx, fuzz, in_offset, last_frozen_line) ==
    LET first_guess    == pch_first + in_offset
        pat_lines      == Len(pat)
        context        == Max(prefix_ctx, suffix_ctx)
        prefix_fuzz    == fuzz + prefix_ctx - context
        suffix_fuzz    == fuzz + suffix_ctx - context
        max_where      == Len(input) - (pat_lines - suffix_fuzz) + 1
        min_where      == last_frozen_line + 1
        max_pos_offset == max_where - first_guess
        neg_offset     == first_guess - min_where
        max_neg_offset == IF first_guess <= neg_offset THEN first_guess - 1 ELSE neg_offset
        min_offset     == IF max_pos_offset < 0 THEN first_guess - max_where
                          ELSE IF max_neg_offset < 0 THEN first_guess - min_where
                          ELSE 0
    IN  IF pat_lines = 0 THEN first_guess
        ELSE IF prefix_fuzz < 0 /\ pch_first <= 1
        THEN \* can only match the start of the file
             IF /\ last_frozen_line <= 0
                /\ 1 - first_guess <= max_pos_offset
                /\ patch_match(input, pat, 1, 0, suffix_fuzz)
             THEN 1 ELSE 0
        ELSE IF suffix_fuzz < 0
        THEN \* can only match the end of the file
             IF /\ first_guess - (Len(input) - pat_lines + 1) <= max_neg_offset
                /\ patch_match(input, pat, Len(input) - pat_lines + 1, Max(prefix_fuzz, 0), 0)
             THEN Len(input) - pat_lines + 1 ELSE 0
        ELSE scan_offsets(input, pat,
                          [first_guess    |-> first_guess,
                           max_offset     |-> Max(max_pos_offset, neg_offset),
                           max_pos_offset |-> max_pos_offset,
                           max_neg_offset |-> max_neg_offset,
                           prefix_fuzz    |-> Max(prefix_fuzz, 0),
                           suffix_fuzz    |-> suffix_fuzz],
                          min_offset)

\* The loop over the fuzz of one hunk: 0 when the hunk is not placed. The
\* first hunk is also tried reversed; found so, patch asks whether to assume
\* -R, gets no answer, and skips the patch.
RECURSIVE locate_fuzzy(_, _, _, _, _, _)
locate_fuzzy(input, hunk, hunkNo, fuzz, in_offset, last_frozen_line) ==
    LET pc      == prefix_context(hunk.body)
        sc      == suffix_context(hunk.body)
        where   == locate_hunk(input, ptrn(hunk.body), hunk.first, pc, sc, fuzz,
                               in_offset, last_frozen_line)
        swapped == locate_hunk(input, repl(hunk.body),
                               IF repl(hunk.body) = <<>> THEN hunk.newfirst + 1
                               ELSE hunk.newfirst,
                               pc, sc, fuzz, in_offset, last_frozen_line)
    IN  IF where # 0 THEN where
        ELSE IF hunkNo = 1 /\ swapped # 0 THEN 0
        ELSE IF fuzz + 1 <= Min(MaxFuzz, Max(pc, sc))
        THEN locate_fuzzy(input, hunk, hunkNo, fuzz + 1, in_offset, last_frozen_line)
        ELSE 0

\* apply_hunk at line where: [ok, out, last_frozen_line]. Context lines are
\* copied from the input (copy_till), removed lines are passed over, added
\* lines are written; ok is FALSE for "misordered hunks".
RECURSIVE apply_hunk(_, _, _, _, _, _, _)
apply_hunk(input, body, where, k, old, frozen, out) ==
    IF k > Len(body) THEN [ok |-> TRUE, out |-> out, last_frozen_line |-> frozen]
    ELSE IF Head(body[k]) = " "
    THEN apply_hunk(input, body, where, k + 1, old + 1, frozen, out)
    ELSE LET upto == where + old - 2
         IN  IF frozen > upto THEN [ok |-> FALSE, out |-> out, last_frozen_line |-> frozen]
             ELSE IF Head(body[k]) = "-"
             THEN apply_hunk(input, body, where, k + 1, old + 1, upto + 1,
                             out \o SubSeq(input, frozen + 1, upto))
             ELSE apply_hunk(input, body, where, k + 1, old, upto,
                             Append(out \o SubSeq(input, frozen + 1, upto), Tail(body[k])))

\* The first line of a hunk: a hunk with no old lines goes after its line
hunk_first(hunk) == IF ptrn(hunk.body) = <<>> THEN hunk.first + 1 ELSE hunk.first

\* The hunks of a patch one after the other: [ok, out]
\* hunkPlaced is a hunk after locate_hunk, hunkApplied after apply_hunk.
RECURSIVE patchFrom(_, _, _, _, _, _)
RECURSIVE hunkApplied(_, _, _, _, _, _)
RECURSIVE hunkPlaced(_, _, _, _, _, _)
hunkApplied(input, hunks, k, out, where, done) ==
    IF ~done.ok THEN [ok |-> FALSE, out |-> <<>>]
    ELSE patchFrom(input, hunks, k + 1, where - hunk_first(hunks[k]),
                   done.last_frozen_line, out \o done.out)

hunkPlaced(input, hunks, k, last_frozen_line, out, where) ==
    IF where = 0 THEN [ok |-> FALSE, out |-> <<>>]
    ELSE hunkApplied(input, hunks, k, out, where,
                     apply_hunk(input, hunks[k].body, where, 1, 1, last_frozen_line, <<>>))

patchFrom(input, hunks, k, in_offset, last_frozen_line, out) ==
    IF k > Len(hunks)
    THEN [ok |-> TRUE, out |-> out \o SubSeq(input, last_frozen_line + 1, Len(input))]
    ELSE hunkPlaced(input, hunks, k, last_frozen_line, out,
                    locate_fuzzy(input, [hunks[k] EXCEPT !.first = hunk_first(hunks[k])],
                                 k, 0, in_offset, last_frozen_line))

\* patch on the lines of the source file and the text on its standard input:
\* ok is exit status 0, out the lines written to standard output.
patch(input, patchContent) ==
    LET hunks == patchHunks(patchContent)
    IN  IF \E k \in 1..Len(hunks) :
               \/ \A i \in 1..Len(hunks[k].body) : Head(hunks[k].body[i]) = " "
               \/ hunks[k].newfirst < 0
        THEN [ok |-> FALSE, out |-> <<>>]      \* malformed patch
        ELSE patchFrom(input, hunks, 1, 0, 0, <<>>)

-----------------------------------------------------------------------------
(* internal/patcher/patcher.go                                             *)

\* The lines of the target file, nil when there is none to read
readSource(fsys, sourcePath) ==
    IF sourcePath # <<>> /\ sourcePath \in DOMAIN fsys
    THEN SplitLines(fsys[sourcePath]) ELSE <<>>

CorrectDiff(fsys, diff) ==
    correctDiffHunks(readSource(fsys, ResolveExisting(fsys, diff.FilePath)),
                     diff.RawContent, diff.FilePath)

\* strings.TrimSuffix(s, "\n")
TrimSuffixNewline(s) ==
    IF s # <<>> /\ s[Len(s)] = "\n" THEN SubSeq(s, 1, Len(s) - 1) ELSE s

\* [lines, err] from the run of patch: its standard output split into lines
patchOutput(isDir, run) ==
    IF isDir \/ ~run.ok THEN [lines |-> <<>>, err |-> TRUE]
    ELSE [lines |-> SplitLines(TrimSuffixNewline(
                        Concat([i \in 1..Len(run.out) |-> Append(run.out[i], "\n")]))),
          err   |-> FALSE]

\* patch runs on the file at sourcePath, or on an empty temporary file
applyPatchAt(fsys, sourcePath, patchContent) ==
    patchOutput(sourcePath # <<>> /\ sourcePath \notin DOMAIN fsys,
                patch(IF sourcePath = <<>> THEN <<>> ELSE FileLines(fsys[sourcePath]),
                      patchContent))

applyPatch(fsys, filePath, patchContent) ==
    applyPatchAt(fsys, ResolveExisting(fsys, filePath), patchContent)

\* RawBlock: the diff inside its fence
RawBlockOf(rawContent) ==
    (<<Backtick, Backtick, Backtick, "d", "i", "f", "f", "\n">> \o rawContent)
        \o <<"\n", Backtick, Backtick, Backtick>>

\* A slip: a diff with a filtered extension counts as failed.
onDisallowedFails(acc, fullPath) == [acc EXCEPT !.failed = Append(@, fullPath)]

\* A diff whose extension the filter does not allow: continue
onDisallowed(acc, fullPath) == acc

\* A slip: the first failing diff ends the run with an error.
onDiffFailedAborts(acc, fullPath) == [acc EXCEPT !.err = TRUE]

\* A diff that cannot be corrected or applied: its path is kept, continue
onDiffFailed(acc, fullPath) == [acc EXCEPT !.failed = Append(@, fullPath)]

\* One diff of GeneratePatchedContents after applyPatch
afterApply(acc, diff, fullPath, applied) ==
    IF applied.err THEN onDiffFailed(acc, fullPath)
    ELSE [acc EXCEPT !.changes =
             Append(@, [Path     |-> fullPath,
                        Content  |-> applied.lines,
                        Source   |-> "diff",
                        RawBlock |-> RawBlockOf(diff.RawContent)])]

\* One diff of GeneratePatchedContents after CorrectDiff
afterCorrect(fsys, acc, diff, fullPath, patched) ==
    IF patched.err THEN onDiffFailed(acc, fullPath)
    ELSE afterApply(acc, diff, fullPath, applyPatch(fsys, diff.FilePath, patched.text))

\* One diff of GeneratePatchedContents, fullPath its resolved path
generateOne(fsys, exts, acc, diff, fullPath) ==
    IF ~(\/ Len(exts) = 0
         \/ \E i \in 1..Len(exts) : Ext(diff.FilePath) = exts[i])
    THEN onDisallowed(acc, fullPath)
    ELSE afterCorrect(fsys, acc, diff, fullPath, CorrectDiff(fsys, diff))

\* The loop of GeneratePatchedContents: acc is [changes, failed, err]
RECURSIVE generateFrom(_, _, _, _, _)
generateFrom(fsys, diffs, exts, k, acc) ==
    IF k > Len(diffs) \/ acc.err THEN acc
    ELSE generateFrom(fsys, diffs, exts, k + 1,
                      generateOne(fsys, exts, acc, diffs[k],
                                  Resolve(fsys, diffs[k].FilePath)))

GeneratePatchedContents(fsys, diffs, exts) ==
    generateFrom(fsys, diffs, exts, 1, [changes |-> <<>>, failed |-> <<>>, err |-> FALSE])

-----------------------------------------------------------------------------
(* parser.CreatePlan                                                       *)

\* finalChanges[change.Path] = change, for the changes from position k on
RECURSIVE putAll(_, _, _)
putAll(map, changes, k) ==
    IF k > Len(changes) THEN map
    ELSE putAll([p \in DOMAIN map \cup {changes[k].Path} |->
                    IF p = changes[k].Path THEN changes[k] ELSE map[p]],
                changes, k + 1)

\* A slip: every change is kept under a key of its own, none overwrites another.
mergeChangesKeepAll(patchedChanges, fileBlocks) == patchedChanges \o fileBlocks

\* A slip: the patches written into the map after the file blocks.
mergeChangesDiffLast(patchedChanges, fileBlocks) ==
    putAll(putAll([p \in {} |-> None], fileBlocks, 1), patchedChanges, 1)

\* finalChanges: the patches, then the file blocks over them
mergeChanges(patchedChanges, fileBlocks) ==
    putAll(putAll([p \in {} |-> None], patchedChanges, 1), fileBlocks, 1)

\* The orders in which a range over a map may give its keys
KeyOrders(map) ==
    {order \in [1..Cardinality(DOMAIN map) -> DOMAIN map] :
        \A i, j \in 1..Cardinality(DOMAIN map) : i # j => order[i] # order[j]}

\* finalChanges and the failures from what the patcher generated
mergeGenerated(generated, fileBlocks) ==
    [finalChanges |-> mergeChanges(generated.changes, fileBlocks),
     failed       |-> generated.failed,
     err          |-> generated.err]

\* CreatePlan up to the range over the map: [finalChanges, failed, err]
createPlan(fsys, blocks, exts) ==
    mergeGenerated(GeneratePatchedContents(fsys, extractDiffBlocksFromParsed(blocks),
                                           IF isDiffOnlyMode(exts) THEN <<>> ELSE exts),
                   IF ~isDiffOnlyMode(exts) THEN parseFileBlocks(fsys, blocks, exts)
                   ELSE <<>>)

\* The ExecutionPlan of the changes and their file actions
newPlan(planChanges, actions, failed) ==
    [Changes      |-> planChanges,
     FileActions  |-> actions.actions,
     DirsToCreate |-> actions.dirs,
     Failed       |-> failed,
     err          |-> FALSE]

\* CreatePlan from the changes in the order the map gave them
planOf(fsys, planChanges, failed) ==
    newPlan(planChanges,
            GetFileActionsAndDirs(fsys, [i \in 1..Len(planChanges) |-> planChanges[i].Path]),
            failed)

\* What CreatePlan may return: an error, or a plan for each order of the map
plansOf(fsys, made) ==
    IF made.err
    THEN {[Changes |-> <<>>, FileActions |-> <<>>, DirsToCreate |-> {},
           Failed |-> <<>>, err |-> TRUE]}
    ELSE {planOf(fsys, [i \in 1..Len(order) |-> made.finalChanges[order[i]]], made.failed) :
            order \in KeyOrders(made.finalChanges)}

CreatePlan ==
    /\ phase = "plan_input"
    /\ plan' \in plansOf(files, createPlan(files, allBlocks, extensions))
    /\ phase' = "plan_done"
    /\ UNCHANGED <<allBlocks, extensions, files, fixVars, hintVars, appVars>>

-----------------------------------------------------------------------------
(* The documents, filters and file systems CreatePlan is run on.           *)

MaxBlocks == 2  \* most fenced blocks in a document

\* Text of the given lines, each ended by a line break
TextOf(lines) == Concat([i \in 1..Len(lines) |-> Append(lines[i], "\n")])

aGo == <<"a", ".", "g", "o">>
bPy == <<"b", ".", "p", "y">>
cGo == <<"c", ".", "g", "o">>
dotDiff == <<".", "d", "i", "f", "f">>
dotGo == <<".", "g", "o">>
langDiff == <<"d", "i", "f", "f">>

PathHint(path) == (<<Backtick>> \o path) \o <<Backtick>>

\* File blocks: a.go, the same file written ./a.go with blank lines at its
\* end, d/b.py with an empty body, and a shell command.
FileBlockA == [Lang |-> <<"g", "o">>, Hint |-> PathHint(aGo), Content |-> TextOf(<< <<"x">> >>)]
FileBlockDotA == [Lang |-> <<>>, Hint |-> PathHint(<<".", "/">> \o aGo),
                  Content |-> TextOf(<< <<"y">>, <<>> >>)]
FileBlockEmpty == [Lang |-> <<"p", "y">>, Hint |-> PathHint(<<"d", "/">> \o bPy), Content |-> <<>>]
CommandBlock == [Lang |-> <<"s", "h">>, Hint |-> PathHint(<<"g", "o", " ", "r", "u", "n">>),
                 Content |-> TextOf(<< <<"z">> >>)]

\* Diff blocks: one that applies to a.go, one that applies to b.py, one for
\* a.go whose hunk is not in the file, one for c.go whose removed line is
\* only similar to the file's.
DiffBlockA == [Lang |-> langDiff, Hint |-> <<>>,
               Content |-> DiffText(aGo, << << <<" ", "a">>, <<"-", "b">>, <<"+", "c">> >> >>, <<1>>)]
\* A second diff for a.go: it replaces the first line and names no other
DiffBlockTop == [Lang |-> langDiff, Hint |-> <<>>,
                 Content |-> DiffText(aGo, << << <<"-", "a">>, <<"+", "d">> >> >>, <<1>>)]
DiffBlockB == [Lang |-> langDiff, Hint |-> <<>>,
               Content |-> DiffText(bPy, << << <<"-", "p">>, <<"+", "q">> >> >>, <<1>>)]
DiffBlockLost == [Lang |-> langDiff, Hint |-> <<>>,
                  Content |-> DiffText(aGo, << << <<"-", "z", "z">>, <<"+", "c">> >> >>, <<1>>)]
DiffBlockNear == [Lang |-> langDiff, Hint |-> <<>>,
                  Content |-> DiffText(cGo, << << <<"-", "a", "b", "c", "d", "f">>, <<"+", "x">> >> >>, <<1>>)]

\* A diff that adds the one line of a file n.go that is in no directory, and
\* the diff for b.py without its "+++ b/" line.
nGo == <<"n", ".", "g", "o">>
DiffBlockNew == [Lang |-> langDiff, Hint |-> <<>>,
                 Content |-> DiffText(nGo, << << <<"+", "n">> >> >>, <<0>>)]
DiffBlockNoTarget ==
    [Lang |-> langDiff, Hint |-> <<>>,
     Content |-> TextOf(<<Head(SplitLines(DiffBlockB.Content))>>
                        \o SubSeq(SplitLines(TrimSpace(DiffBlockB.Content)), 3,
                                  Len(SplitLines(TrimSpace(DiffBlockB.Content)))))]

\* A file block for n.go
FileBlockNew == [Lang |-> <<"g", "o">>, Hint |-> PathHint(nGo), Content |-> TextOf(<< <<"n">> >>)]

BlockPool == {FileBlockA, FileBlockDotA, FileBlockEmpty, CommandBlock, FileBlockNew,
              DiffBlockA, DiffBlockTop, DiffBlockB, DiffBlockLost, DiffBlockNear,
              DiffBlockNew, DiffBlockNoTarget}

ExtPool == {<<>>, <<dotDiff>>, <<dotGo>>, <<dotDiff, dotGo>>}

\* a.go, b.py and c.go in the first lookup directory
FilesInFirstDir ==
    (<<"/", "w", "/">> \o aGo :> TextOf(<< <<"a">>, <<"b">> >>))
    @@ (<<"/", "w", "/">> \o bPy :> TextOf(<< <<"p">> >>))
    @@ (<<"/", "w", "/">> \o cGo :> TextOf(<< <<"a", "b", "c", "d", "e">> >>))

\* only a.go, in the second lookup directory
FilesInSecondDir == (<<"/", "x", "/">> \o aGo :> TextOf(<< <<"a">>, <<"b">> >>))

FsPool == {FilesInFirstDir, FilesInSecondDir}

PlanInit ==
    /\ phase = "plan_input"
    /\ allBlocks \in SeqsOf(BlockPool, 0, MaxBlocks)
    /\ extensions \in ExtPool
    /\ files \in FsPool
    /\ plan = None
    /\ sourceLines = None /\ rawDiffContent = None /\ corrected = None
    /\ recorrected = None /\ written = None
    /\ hint = None /\ hintPath = None
    /\ NoApp

PlanNext == CreatePlan

SpecPlan == PlanInit /\ [][PlanNext]_vars

-----------------------------------------------------------------------------
(* Properties of CreatePlan (SpecPlan).                                    *)

PlanDone == phase = "plan_done" /\ ~plan.err

\* The changes of the plan for a path
ChangesAt(path) == {i \in 1..Len(plan.Changes) : plan.Changes[i].Path = path}

\* Positions of the blocks that name a file in their hint, and the file named
FileBlockAt(k) ==
    /\ k \in 1..Len(allBlocks)
    /\ allBlocks[k].Lang # langDiff
    /\ extractPathFromHint(allBlocks[k].Hint) # <<>>

FileBlockPath(k) == Resolve(files, extractPathFromHint(allBlocks[k].Hint))

\* Positions of the diff blocks that name a target, and the target named
DiffBlockAt(k) ==
    /\ k \in 1..Len(allBlocks)
    /\ allBlocks[k].Lang = langDiff
    /\ ExtractPathFromDiff(TrimSpace(allBlocks[k].Content)) # <<>>

DiffBlockTarget(k) == ExtractPathFromDiff(TrimSpace(allBlocks[k].Content))

DiffBlockPath(k) == Resolve(files, DiffBlockTarget(k))

\* The filter lets the extension of path through
InFilter(path) ==
    extensions = <<>> \/ \E i \in 1..Len(extensions) : extensions[i] = Ext(path)

ExactlyDotDiff == extensions = <<dotDiff>>

\* The lines of a block body: the body up to its last character that is not
\* a line break, split at the line breaks; no line for a body of line breaks.
BodyLines(content) ==
    LET inked == {i \in 1..Len(content) : content[i] # "\n"}
    IN  IF inked = {} THEN <<>>
        ELSE SplitLines(SubSeq(content, 1, CHOOSE i \in inked : \A j \in inked : j <= i))

\* C1 as stated: whenever a file block and a diff block resolve to the same
\* path, every change of the plan for that path comes from a file block.
C1_FileBlockAlwaysWins ==
    PlanDone =>
        \A f, d \in 1..Len(allBlocks) :
            (FileBlockAt(f) /\ DiffBlockAt(d) /\ FileBlockPath(f) = DiffBlockPath(d))
            => \A i \in ChangesAt(FileBlockPath(f)) : plan.Changes[i].Source = "codeblock"

\* C1 amended: outside diff-only mode, when a file block and a diff block
\* resolve to the same path, the plan's change for that path has source
\* codeblock and the content of a file block for that path, in either order
\* of the two blocks; there is such a change when the filter lets the path through.
C1_FileBlockOverridesDiff ==
    (PlanDone /\ ~ExactlyDotDiff) =>
        \A f, d \in 1..Len(allBlocks) :
            (FileBlockAt(f) /\ DiffBlockAt(d) /\ FileBlockPath(f) = DiffBlockPath(d))
            => /\ \A i \in ChangesAt(FileBlockPath(f)) :
                      /\ plan.Changes[i].Source = "codeblock"
                      /\ \E g \in 1..Len(allBlocks) :
                             /\ FileBlockAt(g) /\ FileBlockPath(g) = FileBlockPath(f)
                             /\ plan.Changes[i].Content = BodyLines(allBlocks[g].Content)
               /\ InFilter(extractPathFromHint(allBlocks[f].Hint))
                      => Cardinality(ChangesAt(FileBlockPath(f))) = 1

\* C1's case: a file block for a.go, then a diff that applies to a.go; the
\* plan holds the file block's line.
C1_Witness ==
    /\ phase = "plan_done"
    /\ allBlocks = <<FileBlockA, DiffBlockA>>
    /\ files = FilesInFirstDir
    /\ extensions = <<>>
    /\ Len(plan.Changes) = 1
    /\ plan.Changes[1].Path = <<"/", "w", "/">> \o aGo
    /\ plan.Changes[1].Content = << <<"x">> >>
    /\ plan.Changes[1].Source = "codeblock"

\* The diff blocks the run works on (those the filter lets through) that
\* cannot be corrected or cannot be applied.
CannotApply(filePath, patched) ==
    patched.err \/ applyPatch(files, filePath, patched.text).err

DiffBlockFails(k) ==
    /\ DiffBlockAt(k)
    /\ ExactlyDotDiff \/ InFilter(DiffBlockTarget(k))
    /\ CannotApply(DiffBlockTarget(k),
                   CorrectDiff(files, [FilePath   |-> DiffBlockTarget(k),
                                       RawContent |-> TrimSpace(allBlocks[k].Content)]))

\* The positions of the failing diff blocks
FailingBlocks == {k \in 1..Len(allBlocks) : DiffBlockFails(k)}

\* The document from position k on without the blocks at the positions failing
RECURSIVE WithoutFailing(_, _)
WithoutFailing(failing, k) ==
    IF k > Len(allBlocks) THEN <<>>
    ELSE IF k \in failing THEN WithoutFailing(failing, k + 1)
    ELSE <<allBlocks[k]>> \o WithoutFailing(failing, k + 1)

\* The resolved paths of the blocks at the positions failing, from k on
RECURSIVE FailingPaths(_, _)
FailingPaths(failing, k) ==
    IF k > Len(allBlocks) THEN <<>>
    ELSE IF k \in failing THEN <<DiffBlockPath(k)>> \o FailingPaths(failing, k + 1)
    ELSE FailingPaths(failing, k + 1)

\* The changes of the plan are the values of the map others, each once
PlanChangesAre(others) ==
    /\ {plan.Changes[i] : i \in 1..Len(plan.Changes)} = {others[p] : p \in DOMAIN others}
    /\ Len(plan.Changes) = Cardinality(DOMAIN others)

\* C5: CreatePlan returns no error for a diff block that fails; plan.Failed
\* holds the resolved paths of the failing diff blocks, one entry for each;
\* no change comes from a failing diff block; and the changes of the plan
\* are those of the same document without its failing diff blocks.
C5_FailedDiffDoesNotStopOthers ==
    phase = "plan_done" =>
        LET failing == FailingBlocks
            others  == createPlan(files, WithoutFailing(failing, 1), extensions).finalChanges
        IN  /\ ~plan.err
            /\ plan.Failed = FailingPaths(failing, 1)
            /\ \A k \in failing :
                   \A i \in 1..Len(plan.Changes) :
                       plan.Changes[i].RawBlock # RawBlockOf(TrimSpace(allBlocks[k].Content))
            /\ failing # {} => PlanChangesAre(others)

\* C5's case: a diff that is corrected but that patch rejects, before a diff
\* that applies; the first is in Failed, the second is a change.
C5_Witness ==
    /\ phase = "plan_done"
    /\ allBlocks = <<DiffBlockNear, DiffBlockB>>
    /\ files = FilesInFirstDir
    /\ extensions = <<>>
    /\ ~plan.err
    /\ plan.Failed = << <<"/", "w", "/">> \o cGo >>
    /\ Len(plan.Changes) = 1
    /\ plan.Changes[1].Path = <<"/", "w", "/">> \o bPy
    /\ plan.Changes[1].Content = << <<"q">> >>
    /\ plan.Changes[1].Source = "diff"

\* C7: with the filter exactly <<".diff">> no change comes from a file block
\* and every diff block is in the plan as a change or as a failure, whatever
\* its extension; with any other filter file blocks the filter lets through
\* are in the plan, and diff blocks it does not let through are not.
C7_DiffOnlyMode ==
    PlanDone =>
        /\ ExactlyDotDiff =>
               /\ \A i \in 1..Len(plan.Changes) : plan.Changes[i].Source = "diff"
               /\ \A d \in 1..Len(allBlocks) : DiffBlockAt(d) =>
                      \/ ChangesAt(DiffBlockPath(d)) # {}
                      \/ \E j \in 1..Len(plan.Failed) : plan.Failed[j] = DiffBlockPath(d)
        /\ ~ExactlyDotDiff =>
               /\ \A f \in 1..Len(allBlocks) :
                      (FileBlockAt(f) /\ InFilter(extractPathFromHint(allBlocks[f].Hint)))
                      => \E i \in ChangesAt(FileBlockPath(f)) : plan.Changes[i].Source = "codeblock"
               /\ \A d \in 1..Len(allBlocks) :
                      (DiffBlockAt(d) /\ ~InFilter(DiffBlockTarget(d)))
                      => /\ \A i \in ChangesAt(DiffBlockPath(d)) : plan.Changes[i].Source # "diff"
                         /\ \A j \in 1..Len(plan.Failed) : plan.Failed[j] # DiffBlockPath(d)

\* C7's case: the filter <<".diff">>, a file block for a.go and a diff for
\* b.py; the plan holds the patched b.py and nothing for a.go.
C7_Witness ==
    /\ phase = "plan_done"
    /\ extensions = <<dotDiff>>
    /\ allBlocks = <<FileBlockA, DiffBlockB>>
    /\ files = FilesInFirstDir
    /\ Len(plan.Changes) = 1
    /\ plan.Changes[1].Path = <<"/", "w", "/">> \o bPy
    /\ plan.Changes[1].Source = "diff"
    /\ plan.Failed = <<>>

\* C8: with a filter that is not empty and not exactly <<".diff">>, a diff
\* block whose target has an extension outside the filter gives no change
\* and no entry of plan.Failed, and a file block whose hint path has an
\* extension outside the filter gives no change.
C8_FilteredBlocksAreSkipped ==
    (PlanDone /\ extensions # <<>> /\ ~ExactlyDotDiff) =>
        /\ \A d \in 1..Len(allBlocks) :
               (DiffBlockAt(d) /\ ~InFilter(DiffBlockTarget(d)))
               => /\ \A i \in ChangesAt(DiffBlockPath(d)) : plan.Changes[i].Source # "diff"
                  /\ \A j \in 1..Len(plan.Failed) : plan.Failed[j] # DiffBlockPath(d)
        /\ \A f \in 1..Len(allBlocks) :
               (FileBlockAt(f) /\ ~InFilter(extractPathFromHint(allBlocks[f].Hint)))
               => \A i \in ChangesAt(FileBlockPath(f)) : plan.Changes[i].Source # "codeblock"

\* C8's case: the filter <<".go">>, a diff for b.py that could not be
\* corrected (there is no b.py) and a file block for d/b.py: an empty plan
\* with nothing failed.
C8_Witness ==
    /\ phase = "plan_done"
    /\ extensions = <<dotGo>>
    /\ files = FilesInSecondDir
    /\ allBlocks = <<DiffBlockB, FileBlockEmpty>>
    /\ ~plan.err
    /\ plan.Changes = <<>>
    /\ plan.Failed = <<>>

\* C9 as stated: every block that is not a diff and whose hint is a path in
\* backticks gives a change with the resolved path and the lines of its body.
C9_EveryFileBlockYieldsChange ==
    PlanDone =>
        \A f \in 1..Len(allBlocks) : FileBlockAt(f) =>
            \E i \in ChangesAt(FileBlockPath(f)) :
                /\ plan.Changes[i].Source = "codeblock"
                /\ plan.Changes[i].Content = BodyLines(allBlocks[f].Content)

\* C9 amended: outside diff-only mode, a block that is not a diff, whose hint
\* is a path in backticks that the filter lets through, and that no later
\* such block for the same resolved path follows, gives a change with the
\* resolved path and with the lines of its body: the body without the line
\* breaks at its end, split at line breaks; no line at all for an empty body.
C9_LastFileBlockYieldsChange ==
    (PlanDone /\ ~ExactlyDotDiff) =>
        \A f \in 1..Len(allBlocks) :
            (/\ FileBlockAt(f)
             /\ InFilter(extractPathFromHint(allBlocks[f].Hint))
             /\ \A g \in (f + 1)..Len(allBlocks) :
                    ~(/\ FileBlockAt(g)
                      /\ InFilter(extractPathFromHint(allBlocks[g].Hint))
                      /\ FileBlockPath(g) = FileBlockPath(f)))
            => /\ Cardinality(ChangesAt(FileBlockPath(f))) = 1
               /\ \A i \in ChangesAt(FileBlockPath(f)) :
                      /\ plan.Changes[i].Source = "codeblock"
                      /\ plan.Changes[i].Content = BodyLines(allBlocks[f].Content)

\* C9's case: a block whose body ends in blank lines and a block with an
\* empty body; one line for the first, no line for the second.
C9_Witness ==
    /\ phase = "plan_done"
    /\ extensions = <<>>
    /\ allBlocks = <<FileBlockDotA, FileBlockEmpty>>
    /\ files = FilesInFirstDir
    /\ Len(plan.Changes) = 2
    /\ plan.Changes[1] = [Path |-> <<"/", "w", "/">> \o aGo, Content |-> << <<"y">> >>,
                          Source |-> "codeblock", RawBlock |-> <<>>]
    /\ plan.Changes[2] = [Path |-> <<"/", "w", "/", "d", "/">> \o bPy, Content |-> <<>>,
                          Source |-> "codeblock", RawBlock |-> <<>>]

-----------------------------------------------------------------------------
(* Diffs for files that do not exist, file actions, diffs without a target *)

\* The lines a diff adds: its "+" lines that are not the "+++" line
AddedLines(content) ==
    [i \in 1..Len(SelectSeq(SplitLines(TrimSpace(content)),
                            LAMBDA l : HasPrefix(l, <<"+">>) /\ ~HasPrefix(l, <<"+", "+", "+">>)))
       |-> Tail(SelectSeq(SplitLines(TrimSpace(content)),
                          LAMBDA l : HasPrefix(l, <<"+">>)
                                     /\ ~HasPrefix(l, <<"+", "+", "+">>))[i])]

\* The diff block at d is the only block of the document for its path, the
\* filter lets it through, and its target is in no lookup directory.
LoneDiffForNewFile(d) ==
    /\ DiffBlockAt(d)
    /\ ExactlyDotDiff \/ InFilter(DiffBlockTarget(d))
    /\ ResolveExisting(files, DiffBlockTarget(d)) = <<>>
    /\ \A k \in 1..Len(allBlocks) :
           /\ (DiffBlockAt(k) /\ k # d) => DiffBlockPath(k) # DiffBlockPath(d)
           /\ FileBlockAt(k) => FileBlockPath(k) # DiffBlockPath(d)

\* C11: a diff block whose target file does not exist gives a change for
\* that path whose content is the lines the diff adds, with action create.
C11_NewFileFromDiff ==
    PlanDone =>
        \A d \in 1..Len(allBlocks) : LoneDiffForNewFile(d) =>
            /\ DiffBlockPath(d) \in DOMAIN plan.FileActions
            /\ plan.FileActions[DiffBlockPath(d)] = "create"
            /\ \E i \in ChangesAt(DiffBlockPath(d)) :
                   plan.Changes[i].Content = AddedLines(allBlocks[d].Content)

\* The file or directory at path is there
OnDisk(path) ==
    \/ path \in DOMAIN files
    \/ path \in {<<"/">>, <<"/", "w">>, <<"/", "x">>}
    \/ \E f \in DOMAIN files : Len(f) > Len(path) + 1 /\ SubSeq(f, 1, Len(path) + 1) = path \o <<"/">>

\* The path without its last element
ParentOf(path) ==
    SubSeq(path, 1, (CHOOSE i \in 1..Len(path) :
                        path[i] = "/" /\ \A k \in (i + 1)..Len(path) : path[k] # "/") - 1)

\* C12: FileActions has exactly the paths of the changes, create for a path
\* that is not on disk and modify for one that is; DirsToCreate is exactly
\* the parents, not on disk, of the paths whose action is create.
C12_FileActionsAndDirs ==
    PlanDone =>
        /\ DOMAIN plan.FileActions = {plan.Changes[i].Path : i \in 1..Len(plan.Changes)}
        /\ \A p \in DOMAIN plan.FileActions :
               plan.FileActions[p] = IF OnDisk(p) THEN "modify" ELSE "create"
        /\ plan.DirsToCreate =
               {ParentOf(p) : p \in {q \in DOMAIN plan.FileActions :
                                        /\ plan.FileActions[q] = "create"
                                        /\ ~OnDisk(ParentOf(q))}}

\* C12's case: a.go is there and d/b.py is new in a directory that is not.
C12_Witness ==
    /\ phase = "plan_done"
    /\ files = FilesInFirstDir
    /\ allBlocks = <<FileBlockA, FileBlockEmpty>>
    /\ plan.FileActions = (<<"/", "w", "/">> \o aGo :> "modify")
                          @@ (<<"/", "w", "/", "d", "/">> \o bPy :> "create")
    /\ plan.DirsToCreate = {<<"/", "w", "/", "d">>}

\* The block at k is a diff block with no line that begins "+++ b/" and
\* goes on with a path
PathlessDiffAt(k) ==
    /\ k \in 1..Len(allBlocks)
    /\ allBlocks[k].Lang = langDiff
    /\ \A i \in 1..Len(SplitLines(allBlocks[k].Content)) :
           \/ ~HasPrefix(SplitLines(allBlocks[k].Content)[i], <<"+", "+", "+", " ", "b", "/">>)
           \/ Len(SplitLines(allBlocks[k].Content)[i]) = 6
           \/ IsSpace(SplitLines(allBlocks[k].Content)[i][7])

\* The document without its diff blocks that name no path
RECURSIVE WithoutPathless(_)
WithoutPathless(k) ==
    IF k > Len(allBlocks) THEN <<>>
    ELSE IF PathlessDiffAt(k) THEN WithoutPathless(k + 1)
    ELSE <<allBlocks[k]>> \o WithoutPathless(k + 1)

\* C13: a diff block without a "+++ b/<path>" line gives no error, no
\* change (no change carries its text as RawBlock) and no entry of Failed:
\* the changes and the failures of the plan are those of the document
\* without such blocks.
C13_PathlessDiffIsDropped ==
    phase = "plan_done" =>
        /\ ~plan.err
        /\ \A k \in 1..Len(allBlocks) : PathlessDiffAt(k) =>
               \A i \in 1..Len(plan.Changes) :
                   plan.Changes[i].RawBlock # RawBlockOf(TrimSpace(allBlocks[k].Content))
        /\ (\E k \in 1..Len(allBlocks) : PathlessDiffAt(k)) =>
               LET others == createPlan(files, WithoutPathless(1), extensions)
               IN  /\ plan.Failed = others.failed
                   /\ PlanChangesAre(others.finalChanges)

\* C13's case: the diff for b.py without its "+++ b/" line, then the whole
\* diff for b.py: one change, nothing failed.
C13_Witness ==
    /\ phase = "plan_done"
    /\ allBlocks = <<DiffBlockNoTarget, DiffBlockB>>
    /\ PathlessDiffAt(1) /\ ~PathlessDiffAt(2)
    /\ files = FilesInFirstDir
    /\ extensions = <<>>
    /\ Len(plan.Changes) = 1
    /\ plan.Changes[1].Path = <<"/", "w", "/">> \o bPy
    /\ plan.Changes[1].Content = << <<"q">> >>
    /\ plan.Failed = <<>>


-----------------------------------------------------------------------------
(* internal/state/state.go: the history of runs and its pointer.           *)
(* History[i] of the code is hist[i + 1] here; the pointer keeps the       *)
(* code's values, -1 when no entry is applied.                             *)

\* An Operation of a history entry
Operation(path, action, contentHash, newPath) ==
    [Path |-> path, Action |-> action, ContentHash |-> contentHash, NewPath |-> newPath]

\* A HistoryEntry: one run of the tool
HistoryEntry(timestamp, operations) == [Timestamp |-> timestamp, Operations |-> operations]

\* A slip: the new entry is appended after all entries, undone ones included.
WriteKeepsUndone(hist, index, operations, now) ==
    [History      |-> Append(hist, HistoryEntry(now, operations)),
     CurrentIndex |-> index + 1]

\* Manager.Write at the time now: the entries after the pointer go, the new
\* one is appended
Write(hist, index, operations, now) ==
    [History      |-> Append(IF index < Len(hist) - 1 THEN SubSeq(hist, 1, index + 1)
                             ELSE hist,
                             HistoryEntry(now, operations)),
     CurrentIndex |-> index + 1]

\* A slip: the pointer stays where it was.
GetOperationsToUndoInPlace(hist, index) ==
    IF index < 0 THEN [ops |-> <<>>, CurrentIndex |-> index]
    ELSE [ops |-> hist[index + 1].Operations, CurrentIndex |-> index]

\* A slip: the pointer goes back below -1 when no entry is applied.
GetOperationsToUndoUnguarded(hist, index) ==
    IF index < 0 THEN [ops |-> <<>>, CurrentIndex |-> index - 1]
    ELSE [ops |-> hist[index + 1].Operations, CurrentIndex |-> index - 1]

\* Manager.GetOperationsToUndo: the operations at the pointer, the pointer one back
GetOperationsToUndo(hist, index) ==
    IF index < 0 THEN [ops |-> <<>>, CurrentIndex |-> index]
    ELSE [ops |-> hist[index + 1].Operations, CurrentIndex |-> index - 1]

\* Manager.GetOperationsToRedo: the pointer one forward, the operations there
GetOperationsToRedo(hist, index) ==
    IF index + 1 >= Len(hist) THEN [ops |-> <<>>, CurrentIndex |-> index]
    ELSE [ops |-> hist[index + 2].Operations, CurrentIndex |-> index + 1]

-----------------------------------------------------------------------------
(* internal/fs: hashes, the trash and the directories.                     *)

\* The map without the key
Without(map, key) == [k \in DOMAIN map \ {key} |-> map[k]]

\* The map with the key set to the value
Put(map, key, value) == [k \in DOMAIN map \cup {key} |-> IF k = key THEN value ELSE map[k]]

\* SHA-256 of a content: a tag that no two contents share
SHA256(content) == <<"sha256", content>>

\* fs.GetFileSHA256: the hash, or the error of os.Open and whether it is
\* "does not exist"
GetFileSHA256(fsys, made, path) ==
    IF path \in DOMAIN fsys
    THEN [hash |-> SHA256(fsys[path]), err |-> FALSE, notExist |-> FALSE]
    ELSE [hash |-> <<>>, err |-> TRUE,
          notExist |-> ~(DirExists(fsys, path) \/ path \in made)]

\* os.Stat(path) returns no error, the directories made by CreateDirs included
StatOnDisk(fsys, made, path) == Stat(fsys, path) \/ path \in made

\* fs.IsEmpty: the directory is there and nothing is in it
IsEmpty(fsys, made, dir) ==
    /\ StatOnDisk(fsys, made, dir)
    /\ dir \notin DOMAIN fsys
    /\ \A f \in DOMAIN fsys \cup made : ~HasPrefix(f, dir \o <<"/">>)

\* fs.CreateDirs: os.MkdirAll of every directory of the plan
CreateDirs(made, dirsToCreate) == made \cup dirsToCreate

-----------------------------------------------------------------------------
(* Neovim as the manager drives it: a buffer per path with its text, and   *)
(* the texts that undo and redo bring back.                                *)

\* The lines of the file on disk, none when there is no file
diskLines(fsys, path) == IF path \in DOMAIN fsys THEN FileLines(fsys[path]) ELSE <<>>

\* The buffer of the path: the one the editor has, or the file as read
bufferOf(ed, fsys, path) ==
    IF path \in DOMAIN ed THEN ed[path]
    ELSE [text |-> diskLines(fsys, path), modified |-> FALSE, back |-> <<>>, fwd |-> <<>>]

\* nvim_buf_set_lines over the whole buffer: one change that undo takes back
setLines(buf, content) ==
    [text |-> content, modified |-> TRUE, back |-> Append(buf.back, buf.text), fwd |-> <<>>]

\* :edit! - the buffer is read again from the file
reload(buf, fsys, path) == [buf EXCEPT !.text = diskLines(fsys, path), !.modified = FALSE]

\* :undo - the text before the last change, nothing when there is none
undoStep(buf) ==
    IF buf.back = <<>> THEN buf
    ELSE [text     |-> buf.back[Len(buf.back)],
          modified |-> TRUE,
          back     |-> SubSeq(buf.back, 1, Len(buf.back) - 1),
          fwd      |-> <<buf.text>> \o buf.fwd]

\* :redo - the text of the change last undone, nothing when there is none
redoStep(buf) ==
    IF buf.fwd = <<>> THEN buf
    ELSE [text     |-> Head(buf.fwd),
          modified |-> TRUE,
          back     |-> Append(buf.back, buf.text),
          fwd      |-> Tail(buf.fwd)]

\* :write - the buffer's lines become the file
writeBuffer(st, path, buf) ==
    [st EXCEPT !.files  = Put(@, path, TextOf(buf.text)),
               !.editor = Put(@, path, [buf EXCEPT !.modified = FALSE])]

\* Manager.updateBuffer: :edit and the new lines, nothing is written
updateBuffer(st, filePath, content) ==
    [st EXCEPT !.editor = Put(@, filePath, setLines(bufferOf(st.editor, st.files, filePath),
                                                    content))]

\* Manager.SaveAllBuffers: :wa! writes every modified buffer
SaveAllBuffers(st) ==
    [st EXCEPT
        !.files  = [p \in DOMAIN st.files \cup {q \in DOMAIN st.editor : st.editor[q].modified}
                      |-> IF p \in DOMAIN st.editor /\ st.editor[p].modified
                          THEN TextOf(st.editor[p].text) ELSE st.files[p]],
        !.editor = [p \in DOMAIN st.editor |-> [st.editor[p] EXCEPT !.modified = FALSE]]]

-----------------------------------------------------------------------------
(* The manager's undo and redo of one operation. st is the disk and the    *)
(* editor: [files, trash, dirs, editor]. The outcome carries, in the       *)
(* order the code makes them, the hash checks ("hash_ok" when the file's   *)
(* hash equals op.ContentHash, "hash_bad" when it differs or cannot be     *)
(* read, "hash_gone" when there is no file) and the changes of the disk    *)
(* ("mutate").                                                             *)

outcome(st, success, events) == [st |-> st, success |-> success, events |-> events]

\* os.Rename(from, to) succeeds: from is there and to's directory is there
canRename(st, from, to) ==
    from \in DOMAIN st.files /\ StatOnDisk(st.files, st.dirs, Dir(to))

\* os.Rename(from, to) of a file
rename(st, from, to) == [st EXCEPT !.files = Put(Without(@, from), to, st.files[from])]

\* fs.TrashFile: the file moves under the trash directory
TrashFile(st, path) ==
    [st EXCEPT !.trash = Put(@, path, st.files[path]), !.files = Without(@, path)]

\* fs.RestoreFileFromTrash: the trashed file moves over the original path
RestoreFileFromTrash(st, originalPath) ==
    [st EXCEPT !.files = Put(@, originalPath, st.trash[originalPath]),
               !.trash = Without(@, originalPath)]

\* the file's hash is read and equals the recorded one
hashMatches(st, path, contentHash) ==
    /\ ~GetFileSHA256(st.files, st.dirs, path).err
    /\ GetFileSHA256(st.files, st.dirs, path).hash = contentHash

\* undoFile, "delete": after the file is back, its hash is checked
undoDeleteRestored(st, op) ==
    IF ~hashMatches(st, op.Path, op.ContentHash)
    THEN outcome([st EXCEPT !.files = Without(@, op.Path)], FALSE,
                 <<"mutate", "hash_bad", "mutate">>)
    ELSE outcome(st, TRUE, <<"mutate", "hash_ok">>)

\* undoFile, "delete": the file is restored from the trash first
undoDelete(st, op) ==
    IF \/ op.Path \notin DOMAIN st.trash
       \/ ~StatOnDisk(st.files, st.dirs, Dir(op.Path))
       \/ (op.Path \notin DOMAIN st.files /\ StatOnDisk(st.files, st.dirs, op.Path))
    THEN outcome(st, FALSE, <<>>)
    ELSE undoDeleteRestored(RestoreFileFromTrash(st, op.Path), op)

\* undoFile, "rename": NewPath goes back to Path when its hash is the
\* recorded one and nothing is at Path
undoRename(st, op) ==
    IF ~hashMatches(st, op.NewPath, op.ContentHash) THEN outcome(st, FALSE, <<"hash_bad">>)
    ELSE IF StatOnDisk(st.files, st.dirs, op.Path) THEN outcome(st, FALSE, <<"hash_ok">>)
    ELSE IF ~canRename(st, op.NewPath, op.Path) THEN outcome(st, FALSE, <<"hash_ok">>)
    ELSE outcome(rename(st, op.NewPath, op.Path), TRUE, <<"hash_ok", "mutate">>)

\* undoFile, "create": the file is removed, and its directory when that
\* leaves it empty
undoCreate(st, op) ==
    outcome([st EXCEPT !.files = Without(@, op.Path),
                       !.dirs  = IF IsEmpty(Without(st.files, op.Path), st.dirs, Dir(op.Path))
                                 THEN @ \ {Dir(op.Path)} ELSE @],
            TRUE, <<"hash_ok", "mutate">>)

\* undoFile, "modify": :edit!, :undo, :write
undoModify(st, op) ==
    outcome(writeBuffer(st, op.Path,
                        undoStep(reload(bufferOf(st.editor, st.files, op.Path),
                                        st.files, op.Path))),
            TRUE, <<"hash_ok", "mutate">>)

\* Manager.undoFile
undoFile(st, op) ==
    IF op.Action = "delete" THEN undoDelete(st, op)
    ELSE IF op.Action = "rename" THEN undoRename(st, op)
    ELSE IF GetFileSHA256(st.files, st.dirs, op.Path).err
    THEN outcome(st, GetFileSHA256(st.files, st.dirs, op.Path).notExist, <<"hash_gone">>)
    ELSE IF GetFileSHA256(st.files, st.dirs, op.Path).hash # op.ContentHash
    THEN outcome(st, FALSE, <<"hash_bad">>)
    ELSE IF op.Action = "create" THEN undoCreate(st, op)
    ELSE undoModify(st, op)

\* Manager.redoRename: Path goes to NewPath when its hash is the recorded
\* one and nothing is at NewPath
redoRename(st, op) ==
    IF ~hashMatches(st, op.Path, op.ContentHash) THEN outcome(st, FALSE, <<"hash_bad">>)
    ELSE IF StatOnDisk(st.files, st.dirs, op.NewPath) THEN outcome(st, FALSE, <<"hash_ok">>)
    ELSE IF ~canRename(st, op.Path, op.NewPath) THEN outcome(st, FALSE, <<"hash_ok">>)
    ELSE outcome(rename(st, op.Path, op.NewPath), TRUE, <<"hash_ok", "mutate">>)

\* Manager.redoDelete: the file goes to the trash when its hash is the
\* recorded one
redoDelete(st, op) ==
    IF ~hashMatches(st, op.Path, op.ContentHash) THEN outcome(st, FALSE, <<"hash_bad">>)
    ELSE outcome(TrashFile(st, op.Path), TRUE, <<"hash_ok", "mutate">>)

\* Manager.redoFile: :edit!, :redo, :write
redoFile(st, filePath) ==
    IF ~StatOnDisk(st.files, st.dirs, Dir(filePath)) THEN outcome(st, FALSE, <<>>)
    ELSE
    outcome(writeBuffer(st, filePath,
                        redoStep(reload(bufferOf(st.editor, st.files, filePath),
                                        st.files, filePath))),
            TRUE, <<"mutate">>)

\* The function RedoFiles runs on each operation
redoOne(st, op) ==
    IF op.Action = "delete" THEN redoDelete(st, op)
    ELSE IF op.Action \in {"create", "modify"} THEN redoFile(st, op.Path)
    ELSE IF op.Action = "rename" THEN redoRename(st, op)
    ELSE outcome(st, FALSE, <<>>)

\* processSequentially: the outcomes of the items so far
record(acc, path, out) ==
    [st        |-> out.st,
     succeeded |-> IF out.success THEN Append(acc.succeeded, path) ELSE acc.succeeded,
     failed    |-> IF out.success THEN acc.failed ELSE Append(acc.failed, path),
     events    |-> Append(acc.events, out.events)]

nothingDone(st) == [st |-> st, succeeded |-> <<>>, failed |-> <<>>, events |-> <<>>]

RECURSIVE undoFrom(_, _, _)
undoFrom(acc, ops, k) ==
    IF k > Len(ops) THEN acc
    ELSE undoFrom(record(acc, ops[k].Path, undoFile(acc.st, ops[k])), ops, k + 1)

\* Manager.UndoFiles
UndoFiles(st, ops) == undoFrom(nothingDone(st), ops, 1)

RECURSIVE redoFrom(_, _, _)
redoFrom(acc, ops, k) ==
    IF k > Len(ops) THEN acc
    ELSE redoFrom(record(acc, ops[k].Path, redoOne(acc.st, ops[k])), ops, k + 1)

\* Manager.RedoFiles
RedoFiles(st, ops) == redoFrom(nothingDone(st), ops, 1)

\* One change of ApplyChanges: the batch of updateBuffer runs or is refused
applyOne(st, change, refused) ==
    IF change.Path \in refused THEN outcome(st, FALSE, <<>>)
    ELSE outcome(updateBuffer(st, change.Path, change.Content), TRUE, <<>>)

RECURSIVE applyFrom(_, _, _, _)
applyFrom(acc, changes, refused, k) ==
    IF k > Len(changes) THEN acc
    ELSE applyFrom(record(acc, changes[k].Path, applyOne(acc.st, changes[k], refused)),
                   changes, refused, k + 1)

\* Manager.ApplyChanges
ApplyChanges(st, changes, refused) == applyFrom(nothingDone(st), changes, refused, 1)

-----------------------------------------------------------------------------
(* Manager.CreateOperations: the updated files with their actions and the  *)
(* hashes of what is on disk, sorted by path.                              *)

\* The bytes of the paths in ascending order
ByteOrder == <<".", "/", "a", "b", "c", "d", "g", "n", "o", "p", "r", "w", "x", "y">>

ByteOf(c) == CHOOSE i \in 1..Len(ByteOrder) : ByteOrder[i] = c

\* a < b for strings
RECURSIVE StringLess(_, _)
StringLess(a, b) ==
    IF b = <<>> THEN FALSE
    ELSE IF a = <<>> THEN TRUE
    ELSE IF Head(a) # Head(b) THEN ByteOf(Head(a)) < ByteOf(Head(b))
    ELSE StringLess(Tail(a), Tail(b))

\* The operation put where its path belongs among the sorted ones
RECURSIVE insertByPath(_, _)
insertByPath(sorted, op) ==
    IF sorted = <<>> THEN <<op>>
    ELSE IF StringLess(op.Path, Head(sorted).Path) THEN <<op>> \o sorted
    ELSE <<Head(sorted)>> \o insertByPath(Tail(sorted), op)

\* The operation of an updated file that was created or modified
operationOf(st, f, action) ==
    Operation(f, action,
              IF GetFileSHA256(st.files, st.dirs, f).err THEN <<>>
              ELSE GetFileSHA256(st.files, st.dirs, f).hash,
              <<>>)

RECURSIVE operationsFrom(_, _, _, _, _)
operationsFrom(st, updatedFiles, fileActions, k, ops) ==
    IF k > Len(updatedFiles) THEN ops
    ELSE operationsFrom(st, updatedFiles, fileActions, k + 1,
                        insertByPath(ops, operationOf(st, updatedFiles[k],
                                                      fileActions[updatedFiles[k]])))

CreateOperations(st, updatedFiles, fileActions) ==
    operationsFrom(st, updatedFiles, fileActions, 1, <<>>)


-----------------------------------------------------------------------------
(* itf.App: Execute and the four things it runs (SpecApp).                 *)

MaxRuns == 2    \* most runs of Execute in a behaviour

\* cli.Config: the flags Execute and applyChanges read
Config(undo, redo, outputDiffFix, buffer) ==
    [Undo |-> undo, Redo |-> redo, OutputDiffFix |-> outputDiffFix, Buffer |-> buffer]

\* The flags of a run: --undo with --redo is refused before Execute
ConfigPool ==
    {Config(FALSE, FALSE, FALSE, FALSE), Config(FALSE, FALSE, FALSE, TRUE),
     Config(TRUE, FALSE, FALSE, FALSE), Config(FALSE, TRUE, FALSE, FALSE),
     Config(FALSE, FALSE, TRUE, FALSE), Config(TRUE, FALSE, TRUE, FALSE)}

\* The disk and the editor as the manager's functions take them
Disk == [files |-> files, trash |-> trash, dirs |-> dirs, editor |-> editor]

\* The disk and the editor become st
DiskBecomes(st) ==
    /\ files' = st.files
    /\ trash' = st.trash
    /\ dirs' = st.dirs
    /\ editor' = st.editor

\* The elements of a clean rooted path
Elements(path) == cleanAcc(SplitOn(path, "/", <<>>, <<>>), 1, <<>>)

\* How many leading elements two paths share
RECURSIVE sharedElements(_, _, _)
sharedElements(a, b, n) ==
    IF n < Len(a) /\ n < Len(b) /\ a[n + 1] = b[n + 1] THEN sharedElements(a, b, n + 1) ELSE n

\* filepath.Rel(basepath, targpath) for two clean rooted paths
Rel(basepath, targpath) ==
    LET n == sharedElements(Elements(basepath), Elements(targpath), 0)
        parts == [i \in 1..(Len(Elements(basepath)) - n) |-> <<".", ".">>]
                     \o SubSeq(Elements(targpath), n + 1, Len(Elements(targpath)))
    IN  IF parts = <<>> THEN <<".">> ELSE Join(parts, <<"/">>)

\* os.Getwd: the run is started in the first lookup directory
wd == lookupDirs[1]

\* relativizeSummaryPaths: makeRelative
makeRelative(absPaths) == [i \in 1..Len(absPaths) |-> Rel(wd, absPaths[i])]

\* model.Summary with its paths made relative
Summary(created, modified, failed) ==
    [Created  |-> makeRelative(created),
     Modified |-> makeRelative(modified),
     Failed   |-> makeRelative(failed)]

\* changeSourceMap[path]: the Source of the last change of the plan for path
changeSource(changes, path) ==
    LET at == {i \in 1..Len(changes) : changes[i].Path = path}
    IN  IF at = {} THEN "" ELSE changes[CHOOSE i \in at : \A j \in at : j <= i].Source

\* plan.FileActions[path], "" for a path that is not a key
actionOf(p, path) == IF path \in DOMAIN p.FileActions THEN p.FileActions[path] ELSE ""

\* A slip: every updated file that is not created counts as modified, and the
\* created ones are counted there as well.
categorizeAllModified(p, updatedFiles, failedFromNvim) ==
    Summary(SelectSeq(updatedFiles, LAMBDA f : actionOf(p, f) = "create"),
            updatedFiles,
            p.Failed \o failedFromNvim)

\* applyChanges: the updated files sorted into created, diffApplied and
\* modifiedByExt, and the failed files of the plan and of the editor
categorize(p, updatedFiles, failedFromNvim) ==
    Summary(SelectSeq(updatedFiles, LAMBDA f : actionOf(p, f) = "create"),
            SelectSeq(updatedFiles, LAMBDA f : /\ actionOf(p, f) = "modify"
                                               /\ changeSource(p.Changes, f) = "diff")
                \o SelectSeq(updatedFiles, LAMBDA f : /\ actionOf(p, f) = "modify"
                                                      /\ changeSource(p.Changes, f) # "diff"),
            p.Failed \o failedFromNvim)

\* What a run of Execute did: the branch taken, whether nvim.New gave a
\* manager, the operations or changes it worked on and their outcomes, what
\* it printed, the file actions and failed paths of the plan it applied and
\* the summary it returned
Ran(mode, cfg, connected, ops, done, printed) ==
    [mode      |-> mode,
     cfg       |-> cfg,
     connected |-> connected,
     ops       |-> ops,
     succeeded |-> done.succeeded,
     failed    |-> done.failed,
     events    |-> done.events,
     printed   |-> printed,
     plan      |-> None,
     summary   |-> IF mode \in {"undo", "redo"}
                   THEN Summary(<<>>, done.succeeded, done.failed)
                   ELSE Summary(<<>>, <<>>, <<>>)]

\* A slip: the pointer moves only once the editor is there.
undoRunPointerLast(cfg, connects, got) ==
    /\ currentIndex' = IF Len(got.ops) = 0 \/ ~connects THEN currentIndex ELSE got.CurrentIndex
    /\ history' = history
    /\ IF Len(got.ops) = 0 \/ ~connects
       THEN /\ DiskBecomes(Disk)
            /\ lastRun' = Ran("undo", cfg, FALSE, got.ops, nothingDone(Disk), <<>>)
       ELSE /\ DiskBecomes(UndoFiles(Disk, got.ops).st)
            /\ lastRun' = Ran("undo", cfg, TRUE, got.ops, UndoFiles(Disk, got.ops), <<>>)

\* App.undoLastOperation after GetOperationsToUndo
undoRun(cfg, connects, got) ==
    /\ currentIndex' = got.CurrentIndex
    /\ history' = history
    /\ IF Len(got.ops) = 0 \/ ~connects
       THEN /\ DiskBecomes(Disk)
            /\ lastRun' = Ran("undo", cfg, FALSE, got.ops, nothingDone(Disk), <<>>)
       ELSE /\ DiskBecomes(UndoFiles(Disk, got.ops).st)
            /\ lastRun' = Ran("undo", cfg, TRUE, got.ops, UndoFiles(Disk, got.ops), <<>>)

\* App.redoLastOperation after GetOperationsToRedo
redoRun(cfg, connects, got) ==
    /\ currentIndex' = got.CurrentIndex
    /\ history' = history
    /\ IF Len(got.ops) = 0 \/ ~connects
       THEN /\ DiskBecomes(Disk)
            /\ lastRun' = Ran("redo", cfg, FALSE, got.ops, nothingDone(Disk), <<>>)
       ELSE /\ DiskBecomes(RedoFiles(Disk, got.ops).st)
            /\ lastRun' = Ran("redo", cfg, TRUE, got.ops, RedoFiles(Disk, got.ops), <<>>)

\* A slip: the buffers are saved and the run is written in buffer mode too.
savedAlways(cfg, p, done) ==
    IF Len(done.succeeded) > 0
    THEN [st    |-> SaveAllBuffers(done.st),
          state |-> Write(history, currentIndex,
                          CreateOperations(SaveAllBuffers(done.st), done.succeeded,
                                           p.FileActions),
                          runs)]
    ELSE [st |-> done.st, state |-> [History |-> history, CurrentIndex |-> currentIndex]]

\* applyChanges, its end: when a file was updated and the run is not in
\* buffer mode, the buffers are saved and the run is written to the history
saved(cfg, p, done) ==
    IF Len(done.succeeded) > 0 /\ ~cfg.Buffer
    THEN [st    |-> SaveAllBuffers(done.st),
          state |-> Write(history, currentIndex,
                          CreateOperations(SaveAllBuffers(done.st), done.succeeded,
                                           p.FileActions),
                          runs)]
    ELSE [st |-> done.st, state |-> [History |-> history, CurrentIndex |-> currentIndex]]

\* App.applyChanges with a manager, after ApplyChanges
applied(cfg, p, done) ==
    /\ DiskBecomes(saved(cfg, p, done).st)
    /\ history' = saved(cfg, p, done).state.History
    /\ currentIndex' = saved(cfg, p, done).state.CurrentIndex
    /\ lastRun' = [Ran("apply", cfg, TRUE, <<>>, done, <<>>)
                      EXCEPT !.plan = [FileActions |-> p.FileActions, Failed |-> p.Failed],
                             !.summary = categorize(p, done.succeeded, done.failed)]

\* App.processContent after CreatePlan returned p for the blocks
processRun(cfg, connects, refused, blocks, p) ==
    IF blocks = <<>> \/ p.err \/ (Len(p.Changes) = 0 /\ Len(p.Failed) = 0)
    THEN /\ DiskBecomes(Disk)
         /\ UNCHANGED stateVars
         /\ lastRun' = Ran("apply", cfg, FALSE, <<>>, nothingDone(Disk), <<>>)
    ELSE IF ~connects
    THEN /\ DiskBecomes([Disk EXCEPT !.dirs = CreateDirs(@, p.DirsToCreate)])
         /\ UNCHANGED stateVars
         /\ lastRun' = Ran("apply", cfg, FALSE, <<>>, nothingDone(Disk), <<>>)
    ELSE applied(cfg, p, ApplyChanges([Disk EXCEPT !.dirs = CreateDirs(@, p.DirsToCreate)],
                                      p.Changes, refused))

\* A slip: the corrected text goes before what was printed.
printOneBefore(printed, patched) == IF patched.err THEN printed ELSE patched.text \o printed

\* One diff of fixAndPrintDiffs: the corrected text is printed, a failure
\* prints nothing
printOne(printed, patched) == IF patched.err THEN printed ELSE printed \o patched.text

\* The loop of fixAndPrintDiffs: standard output after the diffs from k on
RECURSIVE printFrom(_, _, _, _)
printFrom(fsys, diffs, k, printed) ==
    IF k > Len(diffs) THEN printed
    ELSE printFrom(fsys, diffs, k + 1, printOne(printed, CorrectDiff(fsys, diffs[k])))

\* The documents Execute is run on
AppDocs ==
    {<<>>, <<FileBlockA>>, <<FileBlockEmpty>>, <<DiffBlockLost, DiffBlockB>>,
     <<DiffBlockA, DiffBlockB>>}

\* The documents the diffs of which are printed
FixDocs == {<<>>, <<DiffBlockLost, DiffBlockB>>, <<DiffBlockA, DiffBlockB>>}

aPath == <<"/", "w", "/">> \o aGo
bPath == <<"/", "w", "/">> \o bPy
rPath == <<"/", "w", "/", "r", ".", "p", "y">>

\* The paths whose buffer Neovim may refuse to update
RefusedPool == {{}, {aPath}}

\* The text a user writes into a file between two runs
UserText == TextOf(<< <<"u">> >>)

\* Where a behaviour starts: nothing run yet, b.py deleted by the last run,
\* or b.py renamed to r.py by the last run
AppStarts ==
    {[files |-> FilesInFirstDir, trash |-> <<>>, history |-> <<>>, currentIndex |-> -1],
     [files        |-> Without(FilesInFirstDir, bPath),
      trash        |-> (bPath :> FilesInFirstDir[bPath]),
      history      |-> <<HistoryEntry(0, <<Operation(bPath, "delete",
                                                        SHA256(FilesInFirstDir[bPath]), <<>>)>>)>>,
      currentIndex |-> 0],
     [files        |-> Put(Without(FilesInFirstDir, bPath), rPath, FilesInFirstDir[bPath]),
      trash        |-> <<>>,
      history      |-> <<HistoryEntry(0, <<Operation(bPath, "rename",
                                                        SHA256(FilesInFirstDir[bPath]), rPath)>>)>>,
      currentIndex |-> 0]}

AppInit ==
    /\ phase = "app"
    /\ \E start \in AppStarts :
           /\ files = start.files
           /\ trash = start.trash
           /\ history = start.history
           /\ currentIndex = start.currentIndex
    /\ dirs = {}
    /\ editor = <<>>
    /\ runs = 0
    /\ lastRun = None
    /\ stateFile = None
    /\ allBlocks = None /\ extensions = None /\ plan = None
    /\ sourceLines = None /\ rawDiffContent = None /\ corrected = None
    /\ recorrected = None /\ written = None
    /\ hint = None /\ hintPath = None

appFrame == UNCHANGED <<phase, stateFile, allBlocks, extensions, plan, fixVars, hintVars>>

\* Execute with --undo
UndoLastOperation ==
    /\ phase = "app" /\ runs < MaxRuns
    /\ \E cfg \in ConfigPool, connects \in BOOLEAN :
           /\ cfg.Undo
           /\ undoRun(cfg, connects, GetOperationsToUndo(history, currentIndex))
    /\ runs' = runs + 1
    /\ appFrame

\* Execute with --redo
RedoLastOperation ==
    /\ phase = "app" /\ runs < MaxRuns
    /\ \E cfg \in ConfigPool, connects \in BOOLEAN :
           /\ ~cfg.Undo /\ cfg.Redo
           /\ redoRun(cfg, connects, GetOperationsToRedo(history, currentIndex))
    /\ runs' = runs + 1
    /\ appFrame

\* Execute with --output-diff-fix: App.fixAndPrintDiffs
FixAndPrintDiffs ==
    /\ phase = "app" /\ runs < MaxRuns
    /\ \E cfg \in ConfigPool, blocks \in FixDocs :
           /\ ~cfg.Undo /\ ~cfg.Redo /\ cfg.OutputDiffFix
           /\ lastRun' = [Ran("fix", cfg, FALSE, <<>>, nothingDone(Disk),
                              printFrom(files, extractDiffBlocksFromParsed(blocks), 1, <<>>))
                          EXCEPT !.ops = blocks]
    /\ runs' = runs + 1
    /\ UNCHANGED <<files, trash, dirs, editor, stateVars>>
    /\ appFrame

\* Execute with none of these flags: App.processContent
ProcessContent ==
    /\ phase = "app" /\ runs < MaxRuns
    /\ \E blocks \in AppDocs : \E p \in plansOf(files, createPlan(files, blocks, <<>>)) :
           \E cfg \in ConfigPool, connects \in BOOLEAN, refused \in RefusedPool :
               /\ ~cfg.Undo /\ ~cfg.Redo /\ ~cfg.OutputDiffFix
               /\ processRun(cfg, connects, refused, blocks, p)
    /\ runs' = runs + 1
    /\ appFrame

\* Between two runs the user writes b.py, or the copy of b.py in the trash
UserEdit ==
    /\ phase = "app" /\ runs < MaxRuns
    /\ \/ files' = Put(files, bPath, UserText) /\ trash' = trash
       \/ bPath \in DOMAIN trash /\ trash' = Put(trash, bPath, UserText) /\ files' = files
    /\ UNCHANGED <<dirs, stateVars, editor, runs, lastRun>>
    /\ appFrame

AppNext ==
    \/ UndoLastOperation
    \/ RedoLastOperation
    \/ FixAndPrintDiffs
    \/ ProcessContent
    \/ UserEdit

SpecApp == AppInit /\ [][AppNext]_vars


-----------------------------------------------------------------------------
(* Properties of undo and redo (SpecApp).                                  *)

\* Every change of the disk comes after a hash check that found the
\* recorded hash
CheckedBeforeMutation(events) ==
    \A i \in 1..Len(events) :
        events[i] = "mutate" => \E j \in 1..(i - 1) : events[j] = "hash_ok"

\* C14: undo and redo change the disk for an operation only after the hash
\* of the file on disk was checked and found equal to the operation's
\* ContentHash, for create, modify, delete and rename alike.
C14_HashCheckedBeforeMutation ==
    (runs > 0 /\ lastRun.mode \in {"undo", "redo"})
        => \A k \in 1..Len(lastRun.events) : CheckedBeforeMutation(lastRun.events[k])


\* The operations n undos return from the pointer at index, last undone first
RECURSIVE UndoneOps(_, _, _)
UndoneOps(hist, index, n) ==
    IF n = 0 THEN <<>>
    ELSE <<GetOperationsToUndo(hist, index).ops>>
         \o UndoneOps(hist, GetOperationsToUndo(hist, index).CurrentIndex, n - 1)

\* The pointer after n undos
RECURSIVE IndexAfterUndos(_, _, _)
IndexAfterUndos(hist, index, n) ==
    IF n = 0 THEN index
    ELSE IndexAfterUndos(hist, GetOperationsToUndo(hist, index).CurrentIndex, n - 1)

\* The operations n redos return from the pointer at index, first redone first
RECURSIVE RedoneOps(_, _, _)
RedoneOps(hist, index, n) ==
    IF n = 0 THEN <<>>
    ELSE <<GetOperationsToRedo(hist, index).ops>>
         \o RedoneOps(hist, GetOperationsToRedo(hist, index).CurrentIndex, n - 1)

\* The pointer after n redos
RECURSIVE IndexAfterRedos(_, _, _)
IndexAfterRedos(hist, index, n) ==
    IF n = 0 THEN index
    ELSE IndexAfterRedos(hist, GetOperationsToRedo(hist, index).CurrentIndex, n - 1)

Reversed(seq) == [i \in 1..Len(seq) |-> seq[Len(seq) + 1 - i]]

\* From the history as it is, n undos and then n redos give the same
\* operation lists and the pointer where it was
UndosThenRedos ==
    \A n \in 1..(currentIndex + 1) :
        /\ IndexAfterUndos(history, currentIndex, n) = currentIndex - n
        /\ UndoneOps(history, currentIndex, n)
               = [i \in 1..n |-> history[currentIndex + 2 - i].Operations]
        /\ IndexAfterRedos(history, currentIndex - n, n) = currentIndex
        /\ RedoneOps(history, currentIndex - n, n)
               = Reversed(UndoneOps(history, currentIndex, n))

\* A run of Execute took the branch
RunOf(mode) == runs' = runs + 1 /\ lastRun'.mode = mode

\* An undo with an applied entry takes the pointer one back and works on that
\* entry; a redo with an entry ahead takes the pointer one forward and works
\* on that entry; neither changes the history; a redo that follows an undo
\* works on the operations the undo worked on
UndoRedoStep ==
    /\ (RunOf("undo") /\ currentIndex >= 0)
          => /\ currentIndex' = currentIndex - 1
             /\ lastRun'.ops = history[currentIndex + 1].Operations
             /\ history' = history
    /\ (RunOf("redo") /\ currentIndex + 1 < Len(history))
          => /\ currentIndex' = currentIndex + 1
             /\ lastRun'.ops = history[currentIndex + 2].Operations
             /\ history' = history
    /\ (RunOf("redo") /\ runs > 0 /\ lastRun.mode = "undo" /\ Len(lastRun.ops) > 0)
          => /\ lastRun'.ops = lastRun.ops
             /\ currentIndex' = currentIndex + 1
             /\ history' = history

\* C15: undo moves the pointer back by exactly one entry and returns that
\* entry's operations, redo moves it forward by exactly one and returns the
\* next entry's operations; an undo followed by a redo (and n undos followed
\* by n redos) returns the same operations and leaves the pointer and the
\* history as they were.
C15_UndoThenRedoRestores == [](phase = "app" => UndosThenRedos) /\ [][UndoRedoStep]_vars

\* C15 witness: a redo has brought back the operations of the entry an undo
\* had left, and the pointer is at the last entry again.
C15_Witness ==
    /\ runs > 1
    /\ lastRun.mode = "redo"
    /\ Len(lastRun.ops) > 0
    /\ currentIndex = Len(history) - 1


-----------------------------------------------------------------------------
(* Properties of processContent and fixAndPrintDiffs (SpecApp).            *)

\* The paths of a list
PathSet(paths) == {paths[i] : i \in 1..Len(paths)}

\* After the step every updated file is on disk as its buffer has it
UpdatedAreSaved ==
    \A p \in PathSet(lastRun'.succeeded) :
        /\ p \in DOMAIN files'
        /\ files'[p] = TextOf(editor'[p].text)
        /\ ~editor'[p].modified

\* The step leaves the updated buffers modified and nothing on disk changed
UpdatedAreBuffersOnly ==
    /\ files' = files
    /\ trash' = trash
    /\ \A p \in PathSet(lastRun'.succeeded) : editor'[p].modified

\* The step appends one entry for the updated files after the applied entries
OneEntryWritten ==
    /\ Len(history') = currentIndex + 2
    /\ currentIndex' = currentIndex + 1
    /\ SubSeq(history', 1, currentIndex + 1) = SubSeq(history, 1, currentIndex + 1)
    /\ {history'[currentIndex + 2].Operations[i].Path :
              i \in 1..Len(history'[currentIndex + 2].Operations)}
           = PathSet(lastRun'.succeeded)

\* What a run of processContent does to the disk and the history
BufferModeStep ==
    RunOf("apply") =>
        IF lastRun'.cfg.Buffer
        THEN UpdatedAreBuffersOnly /\ UNCHANGED stateVars
        ELSE IF Len(lastRun'.succeeded) > 0
        THEN UpdatedAreSaved /\ OneEntryWritten
        ELSE files' = files /\ UNCHANGED stateVars

CorrectedOrNothing(patched) == IF patched.err THEN <<>> ELSE patched.text

\* The corrected texts of the diffs that can be corrected, in their order
CorrectedTexts(fsys, diffs) ==
    Concat([i \in 1..Len(diffs) |-> CorrectedOrNothing(CorrectDiff(fsys, diffs[i]))])

\* What a run of fixAndPrintDiffs on the blocks lastRun'.ops does
PrintOnlyStep ==
    RunOf("fix") =>
        /\ lastRun'.cfg.OutputDiffFix
        /\ ~lastRun'.connected
        /\ UNCHANGED <<files, trash, dirs, editor, history, currentIndex>>
        /\ lastRun'.printed = CorrectedTexts(files, extractDiffBlocksFromParsed(lastRun'.ops))

-----------------------------------------------------------------------------
(* One change per path (SpecPlan).                                         *)

\* C18: after CreatePlan no two entries of plan.Changes have the same Path,
\* however many file blocks and diff blocks of the input target that path.
C18_OneChangePerPath ==
    PlanDone =>
        \A i, j \in 1..Len(plan.Changes) :
            i # j => plan.Changes[i].Path # plan.Changes[j].Path

\* C18 witness: two file blocks, `a.go` and `./a.go`, resolve to /w/a.go and
\* the plan has one change for it.
C18_Witness ==
    /\ PlanDone
    /\ allBlocks = <<FileBlockA, FileBlockDotA>>
    /\ files = FilesInFirstDir
    /\ extensions = <<>>
    /\ FileBlockPath(1) = FileBlockPath(2)
    /\ Len(plan.Changes) = 1
    /\ Cardinality(ChangesAt(FileBlockPath(1))) = 1


-----------------------------------------------------------------------------
(* matchBlock on the hunks CreatePlan corrects (SpecPlan).                 *)

\* The lines of the file the k-th block's diff is corrected against
DiffBlockSource(k) == readSource(files, ResolveExisting(files, DiffBlockTarget(k)))

\* The target blocks of the hunks of the k-th block's diff
DiffBlockTargets(k) ==
    [h \in 1..Len(parseDiffToHunks(SplitLines(TrimSpace(allBlocks[k].Content)))) |->
        getTargetBlock(parseDiffToHunks(SplitLines(TrimSpace(allBlocks[k].Content)))[h])]

\* The windows of the blank-filtered source whose normalized lines equal
\* the normalized lines of the block, by their position in the filtered source
ExactWindows(source, block) ==
    {i \in 1..(Len(filteredSource(source)) - Len(block) + 1) :
        \A j \in 1..Len(block) :
            filteredSource(source)[i + j - 1].line = normalizeLineForMatching(block[j])}

\* The line number of the first window that equals the block, -1 when none does
FirstExactWindow(source, block) ==
    IF ExactWindows(source, block) = {} THEN -1
    ELSE filteredSource(source)[CHOOSE i \in ExactWindows(source, block) :
                                    \A i2 \in ExactWindows(source, block) : i <= i2].number

\* C19: matchBlock finds a window of the blank-filtered source iff every
\* normalized line of the window equals the corresponding normalized line of
\* the target block, and returns the line number of the first such window; a
\* window with a differing line pair is never chosen.
C19_MatchIsExactAndFirst ==
    PlanDone =>
        \A k \in 1..Len(allBlocks) :
            DiffBlockAt(k) =>
                \A h \in 1..Len(DiffBlockTargets(k)) :
                    DiffBlockTargets(k)[h] # <<>> =>
                        matchBlock(DiffBlockSource(k), DiffBlockTargets(k)[h])
                            = FirstExactWindow(DiffBlockSource(k), DiffBlockTargets(k)[h])


-----------------------------------------------------------------------------
(* The numbers of the corrected hunk headers (SpecFix).                    *)

\* How many lines of the hunk body begin with one of the marks
LinesMarked(body, marks) == Cardinality({i \in 1..Len(body) : Head(body[i]) \in marks})

\* newLines - oldLines summed over the hunks before the k-th
RECURSIVE DeltaBefore(_, _)
DeltaBefore(bodies, k) ==
    IF k <= 1 THEN 0
    ELSE DeltaBefore(bodies, k - 1)
         + LinesMarked(bodies[k - 1], {" ", "+"}) - LinesMarked(bodies[k - 1], {" ", "-"})

\* A hunk of two context lines, one removed and two added lines
ThreeOldFourNew ==
    << <<" ", "a">>, <<"-", "b">>, <<"+", "c">>, <<"+", "d">>, <<" ", "e">> >>

\* C20: every hunk header of a corrected diff has oldLines = context lines +
\* removed lines and newLines = context lines + added lines of its hunk, and
\* newStart = oldStart + the sum of (newLines - oldLines) over the earlier
\* hunks of the diff, 0 for the first; a hunk of 3 old and 4 new lines matched
\* at line 10 as first hunk gets the header @@ -10,3 +10,4 @@.
C20_HeaderCounts ==
    (phase = "fix_corrected" /\ ~corrected.err) =>
        /\ Len(Headers(corrected.text)) = Len(Bodies(corrected.text))
        /\ \A k \in 1..Len(Headers(corrected.text)) :
               /\ Headers(corrected.text)[k][2]
                      = LinesMarked(Bodies(corrected.text)[k], {" ", "-"})
               /\ Headers(corrected.text)[k][4]
                      = LinesMarked(Bodies(corrected.text)[k], {" ", "+"})
               /\ Headers(corrected.text)[k][3]
                      = Headers(corrected.text)[k][1] + DeltaBefore(Bodies(corrected.text), k)
        /\ writeHunk(<<>>, ThreeOldFourNew, 10, 0)[1]
               = <<"@", "@", " ", "-", "10", ",", "3", " ", "+", "10", ",", "4", " ", "@", "@", "\n">>

\* C20 witness: a corrected diff of two hunks, the first of which removes a
\* line, so that the second hunk's newStart is below its oldStart.
C20_Witness ==
    /\ phase = "fix_corrected"
    /\ ~corrected.err
    /\ Len(Headers(corrected.text)) = 2
    /\ DeltaBefore(Bodies(corrected.text), 2) = -1
    /\ Headers(corrected.text)[2][3] = Headers(corrected.text)[2][1] - 1

-----------------------------------------------------------------------------
(* The bodies of the corrected hunks (SpecFix).                            *)

\* The lines of a diff text under each of its "@@" lines, as a reader of
\* unified diffs takes them: every line up to the next "@@" line or the end.
HunkBodies(text) ==
    LET ls == SplitLines(TrimSuffixNewline(text))
        at == SelectSeq([i \in 1..Len(ls) |-> i], LAMBDA i : HasPrefix(ls[i], <<"@", "@">>))
    IN  [k \in 1..Len(at) |->
            SubSeq(ls, at[k] + 1, IF k < Len(at) THEN at[k + 1] - 1 ELSE Len(ls))]

\* The hunks of a diff text that have a body
NonEmptyBodies(text) == SelectSeq(HunkBodies(text), LAMBDA body : body # <<>>)

\* C21: in a successfully corrected diff the body under each rebuilt hunk
\* header is exactly the sequence of body lines the input diff had in that
\* hunk, unchanged, in order and none omitted.
C21_BodiesAreVerbatim ==
    (phase = "fix_corrected" /\ ~corrected.err) =>
        HunkBodies(corrected.text) = NonEmptyBodies(rawDiffContent)

-----------------------------------------------------------------------------
(* Hunks that name no line of the file (SpecFix).                          *)

\* No context or removed line of the hunk body has non-blank text
EmptyTarget(body) ==
    \A i \in 1..Len(body) :
        Head(body[i]) \in {" ", "-"} => TrimSpace(Tail(body[i])) = <<>>

\* A hunk of the input diff has an empty target block
SomeEmptyTarget ==
    \E k \in 1..Len(NonEmptyBodies(rawDiffContent)) :
        EmptyTarget(NonEmptyBodies(rawDiffContent)[k])

-----------------------------------------------------------------------------
(* The summary of a run that applies a plan (SpecApp).                     *)

\* How many times path stands in paths
Occurs(paths, path) == Cardinality({i \in 1..Len(paths) : paths[i] = path})

\* A run of applyChanges with a manager has returned its summary
AppliedStep == RunOf("apply") /\ lastRun'.connected

\* The summary of the run against the files as they were when the plan was built
SummaryStep ==
    AppliedStep =>
        /\ \A f \in PathSet(lastRun'.succeeded) :
               /\ Occurs(lastRun'.summary.Created, Rel(wd, f))
                      + Occurs(lastRun'.summary.Modified, Rel(wd, f)) = 1
               /\ Occurs(lastRun'.summary.Created, Rel(wd, f)) = 1
                      <=> lastRun'.plan.FileActions[f] = "create"
               /\ lastRun'.plan.FileActions[f] = "create"
                      <=> (f \notin DOMAIN files /\ ~DirExists(files, f))
        /\ lastRun'.summary.Failed
               = [i \in 1..Len(lastRun'.plan.Failed \o lastRun'.failed) |->
                      Rel(wd, (lastRun'.plan.Failed \o lastRun'.failed)[i])]

\* C23: in the summary of a run every path the editor reports as updated
\* stands in exactly one of Created and Modified, in Created iff its file
\* action is create (the file did not exist when the plan was built), and
\* Failed is the plan's failed paths followed by the paths the editor failed
\* to update.
C23_SummaryCategories == [][SummaryStep]_vars

\* C23 witness: a run that created d/b.py, which was not on disk
C23_Witness ==
    /\ runs > 0
    /\ lastRun.mode = "apply"
    /\ lastRun.connected
    /\ lastRun.succeeded = << <<"/", "w", "/", "d", "/">> \o bPy >>
    /\ lastRun.summary.Created = << <<"d", "/">> \o bPy >>
    /\ lastRun.summary.Modified = <<>>

-----------------------------------------------------------------------------
(* internal/state/state.go: the state file (SpecState).                    *)
(* The manager of one process writes, undoes and redoes; each of these     *)
(* saves the state file, and a new process loads it.                       *)

MaxEntries == 3     \* most entries of the history

\* The times of the runs, in seconds
TimePool == {1, 2}

\* The numbers the state file can hold
StateNums == -1..(MaxEntries + 2)

\* strconv.Atoi and strconv.ParseInt of s: [n, err]
Atoi(s) ==
    IF \E n \in StateNums : s = <<Digits(n)>>
    THEN [n |-> CHOOSE n \in StateNums : s = <<Digits(n)>>, err |-> FALSE]
    ELSE [n |-> 0, err |-> TRUE]

\* Where strings.Split(s, "\n\n") cuts s: the separators are taken from the
\* left and do not overlap, so that a run of line breaks is cut at its first
\* and second, its third and fourth, and so on.
blankStarts(s) ==
    LET runStart(i) == CHOOSE j \in 1..i :
                           /\ \A k \in j..i : s[k] = "\n"
                           /\ (j = 1 \/ s[j - 1] # "\n")
        starts == {i \in 1..(Len(s) - 1) :
                      s[i] = "\n" /\ s[i + 1] = "\n" /\ (i - runStart(i)) % 2 = 0}
    IN  SelectSeq([i \in 1..Len(s) |-> i], LAMBDA i : i \in starts)

\* strings.Split(s, "\n\n")
SplitBlocks(s) ==
    LET at == blankStarts(s)
    IN  [k \in 1..(Len(at) + 1) |->
            SubSeq(s, IF k = 1 THEN 1 ELSE at[k - 1] + 2,
                      IF k > Len(at) THEN Len(s) ELSE at[k] - 1)]

\* save: the lines of the operations of one entry
RECURSIVE opLinesOf(_, _)
opLinesOf(operations, k) ==
    IF k > Len(operations) THEN <<>>
    ELSE (<< <<operations[k].Action>>, operations[k].Path, operations[k].ContentHash >>
          \o (IF operations[k].Action = "rename" THEN <<operations[k].NewPath>> ELSE <<>>))
         \o opLinesOf(operations, k + 1)

\* save: the block of one entry
entryBlock(entry) ==
    <<Digits(entry.Timestamp), "\n">> \o Join(opLinesOf(entry.Operations, 1), <<"\n">>)

\* Manager.save: the content written to the state file
save(hist, index) ==
    [exists  |-> TRUE,
     content |-> Join(<< <<Digits(index)>> >> \o [i \in 1..Len(hist) |-> entryBlock(hist[i])],
                      <<"\n", "\n">>)]

\* The state of a manager that has no history
emptyState == [History |-> <<>>, CurrentIndex |-> -1, err |-> FALSE]

\* What load returns on a state file it cannot read
invalidState == [History |-> <<>>, CurrentIndex |-> -1, err |-> TRUE]

\* load: the operations of the lines from i on, [ops, err]
RECURSIVE loadOps(_, _, _)
loadOps(opLines, i, ops) ==
    IF i > Len(opLines) THEN [ops |-> ops, err |-> FALSE]
    ELSE IF i + 2 > Len(opLines) THEN [ops |-> ops, err |-> TRUE]
    ELSE IF opLines[i] = <<"rename">>
    THEN (IF i + 3 > Len(opLines) THEN [ops |-> ops, err |-> TRUE]
          ELSE loadOps(opLines, i + 4,
                       Append(ops, Operation(opLines[i + 1], "rename", opLines[i + 2],
                                             opLines[i + 3]))))
    ELSE loadOps(opLines, i + 3,
                 Append(ops, Operation(opLines[i + 1],
                                       IF Len(opLines[i]) = 1 THEN opLines[i][1] ELSE opLines[i],
                                       opLines[i + 2], <<>>)))

\* load: the entries of the blocks from k on
RECURSIVE loadEntries(_, _, _, _)
loadEntry(blocks, k, index, hist, lines) ==
    IF Atoi(lines[1]).err \/ loadOps(Tail(lines), 1, <<>>).err THEN invalidState
    ELSE loadEntries(blocks, k + 1, index,
                     Append(hist, HistoryEntry(Atoi(lines[1]).n,
                                               loadOps(Tail(lines), 1, <<>>).ops)))

loadEntries(blocks, k, index, hist) ==
    IF k > Len(blocks) THEN [History |-> hist, CurrentIndex |-> index, err |-> FALSE]
    ELSE IF TrimSpace(blocks[k]) = <<>> THEN loadEntries(blocks, k + 1, index, hist)
    ELSE loadEntry(blocks, k, index, hist, SplitLines(TrimSpace(blocks[k])))

\* load on the blocks of the file
loadBlocks(blocks) ==
    IF blocks[1] = <<>> THEN emptyState
    ELSE IF Atoi(TrimSpace(blocks[1])).err THEN invalidState
    ELSE loadEntries(blocks, 2, Atoi(TrimSpace(blocks[1])).n, <<>>)

\* Manager.load: [History, CurrentIndex, err]. The texts here hold no
\* carriage return, so that the replacement of "\r\n" changes nothing.
load(file) ==
    IF ~file.exists THEN emptyState
    ELSE loadBlocks(SplitBlocks(file.content))

\* New: the state a new manager starts with
New(file) == IF load(file).err THEN emptyState ELSE load(file)

\* The operations a run may record: a hash that could not be taken is empty
HashOfA == <<"h", "1">>
OperationsPool ==
    {<<>>,
     <<Operation(bPath, "create", <<>>, <<>>)>>,
     <<Operation(aPath, "modify", HashOfA, <<>>), Operation(bPath, "rename", HashOfA, rPath)>>}

\* What the last call on the manager was, the operations it returned, and
\* how many entries stood after the pointer when it was made
Called(call, ops) ==
    [call   |-> call,
     ops    |-> ops,
     undone |-> IF call = "New" THEN 0 ELSE Len(history) - 1 - currentIndex]

StateInit ==
    /\ phase = "state"
    /\ history = <<>>
    /\ currentIndex = -1
    /\ stateFile = [exists |-> FALSE, content |-> <<>>]
    /\ lastRun = Called("New", <<>>)
    /\ trash = None /\ dirs = None /\ editor = None /\ runs = None
    /\ allBlocks = None /\ extensions = None /\ files = None /\ plan = None
    /\ sourceLines = None /\ rawDiffContent = None /\ corrected = None
    /\ recorrected = None /\ written = None
    /\ hint = None /\ hintPath = None

stateFrame == UNCHANGED <<phase, trash, dirs, editor, runs, fixVars, hintVars, planVars>>

\* Manager.Write
StateWrite ==
    /\ phase = "state"
    /\ currentIndex + 2 <= MaxEntries
    /\ \E operations \in OperationsPool, now \in TimePool :
           /\ history' = Write(history, currentIndex, operations, now).History
           /\ currentIndex' = Write(history, currentIndex, operations, now).CurrentIndex
    /\ stateFile' = save(history', currentIndex')
    /\ lastRun' = Called("Write", <<>>)
    /\ stateFrame

\* Manager.GetOperationsToUndo
StateUndo ==
    /\ phase = "state"
    /\ currentIndex' = GetOperationsToUndo(history, currentIndex).CurrentIndex
    /\ history' = history
    /\ stateFile' = IF currentIndex < 0 THEN stateFile ELSE save(history', currentIndex')
    /\ lastRun' = Called("GetOperationsToUndo", GetOperationsToUndo(history, currentIndex).ops)
    /\ stateFrame

\* Manager.GetOperationsToRedo
StateRedo ==
    /\ phase = "state"
    /\ currentIndex' = GetOperationsToRedo(history, currentIndex).CurrentIndex
    /\ history' = history
    /\ stateFile' = IF currentIndex + 1 >= Len(history) THEN stateFile
                    ELSE save(history', currentIndex')
    /\ lastRun' = Called("GetOperationsToRedo", GetOperationsToRedo(history, currentIndex).ops)
    /\ stateFrame

\* New: the next process loads the state file
StateNew ==
    /\ phase = "state"
    /\ history' = New(stateFile).History
    /\ currentIndex' = New(stateFile).CurrentIndex
    /\ UNCHANGED stateFile
    /\ lastRun' = Called("New", <<>>)
    /\ stateFrame

StateNext == StateWrite \/ StateUndo \/ StateRedo \/ StateNew

SpecState == StateInit /\ [][StateNext]_vars

-----------------------------------------------------------------------------
(* Claims about the history and its state file (SpecState).                *)

\* The step left every entry in place and put one entry after them all
OnlyAppended ==
    /\ Len(history') = Len(history) + 1
    /\ SubSeq(history', 1, Len(history)) = history

\* C24: the history is append-only: Write adds exactly one new entry at the
\* end and never removes or alters an entry recorded earlier, wherever the
\* pointer stands, after one or more undos too.
C24_WriteOnlyAppends == [][StateWrite => OnlyAppended]_vars

\* The step kept the entries up to the pointer, dropped the entries after it,
\* put one entry after the kept ones and moved the pointer onto it
AppendedAtPointer ==
    /\ Len(history') = currentIndex + 2
    /\ SubSeq(history', 1, currentIndex + 1) = SubSeq(history, 1, currentIndex + 1)
    /\ currentIndex' = currentIndex + 1
    /\ (currentIndex = Len(history) - 1 => OnlyAppended)

\* C24, amended: Write puts exactly one new entry directly after the entry at
\* the pointer and moves the pointer onto it; the entries up to the pointer
\* are neither removed nor altered, the entries after the pointer (undone and
\* not redone) are removed; with nothing undone the history is appended to.
C24_WriteAppendsAtPointer == [][StateWrite => AppendedAtPointer]_vars

\* C24 witness: a Write made when two entries were undone left one entry
C24_Witness ==
    /\ phase = "state"
    /\ lastRun.call = "Write"
    /\ lastRun.undone = 2
    /\ Len(history) = 1
    /\ currentIndex = 0

\* C25: from the empty history on, after any calls of Write,
\* GetOperationsToUndo and GetOperationsToRedo the pointer is at least -1 and
\* at most len(History) - 1; an undo at -1 and a redo at len(History) - 1
\* return no operations and leave the pointer and the history as they are.
C25_PointerInRange ==
    /\ phase = "state" =>
           /\ -1 <= currentIndex
           /\ currentIndex <= Len(history) - 1
           /\ currentIndex = -1 =>
                  GetOperationsToUndo(history, currentIndex)
                      = [ops |-> <<>>, CurrentIndex |-> currentIndex]
           /\ currentIndex = Len(history) - 1 =>
                  GetOperationsToRedo(history, currentIndex)
                      = [ops |-> <<>>, CurrentIndex |-> currentIndex]
    /\ [][(StateUndo /\ currentIndex = -1) \/ (StateRedo /\ currentIndex = Len(history) - 1)
              => /\ UNCHANGED <<history, currentIndex, stateFile>>
                 /\ lastRun'.ops = <<>>]_vars

\* C25 witness: an undo was asked for with the pointer at -1 and entries to
\* redo, and it returned nothing
C25_Witness ==
    /\ phase = "state"
    /\ lastRun.call = "GetOperationsToUndo"
    /\ lastRun.undone = Len(history)
    /\ Len(history) = 2
    /\ currentIndex = -1
    /\ lastRun.ops = <<>>

\* C26: for every state that Write, undo and redo produce, save followed by
\* load gives the same CurrentIndex and the same History: the timestamp of
\* each entry and the action, path, content hash and rename target of each
\* operation, operations with an empty ContentHash and entries without
\* operations included.
C26_SaveLoadRoundTrip ==
    phase = "state" =>
        load(save(history, currentIndex))
            = [History |-> history, CurrentIndex |-> currentIndex, err |-> FALSE]

-----------------------------------------------------------------------------
(* The pointer and the outcome of an undo or redo (SpecApp).               *)

\* Where the history alone puts the pointer after an undo and after a redo
PointerAfterUndo == IF currentIndex >= 0 THEN currentIndex - 1 ELSE currentIndex
PointerAfterRedo == IF currentIndex + 1 < Len(history) THEN currentIndex + 1 ELSE currentIndex

\* A run of undo or redo moves the pointer as the history says, whether or
\* not the editor was started and whatever became of the files
PointerStep ==
    /\ RunOf("undo") => (currentIndex' = PointerAfterUndo /\ history' = history)
    /\ RunOf("redo") => (currentIndex' = PointerAfterRedo /\ history' = history)
    /\ (RunOf("undo") \/ RunOf("redo")) /\ ~lastRun'.connected
           => UNCHANGED <<files, trash, dirs, editor>>

-----------------------------------------------------------------------------
(* What a failed undo or redo leaves on disk (SpecApp).                    *)

\* An undo or redo ran with the editor and reported failure for every
\* operation of the entry
AllFailedStep ==
    /\ RunOf("undo") \/ RunOf("redo")
    /\ lastRun'.connected
    /\ lastRun'.succeeded = <<>>
    /\ lastRun'.failed # <<>>

\* C28: when the undo or redo of a history operation reports failure for its
\* path, the file system is as it was before the attempt: the file at the
\* operation's path, the file at its rename target and the copy in the trash
\* are there or not, with the same content, as before.
C28_FailedRevertLeavesDisk ==
    [][AllFailedStep => UNCHANGED <<files, trash, dirs>>]_vars

-----------------------------------------------------------------------------
(* plan.Failed against plan.Changes (SpecPlan).                            *)

\* The paths of plan.Changes
ChangedPaths == {plan.Changes[i].Path : i \in 1..Len(plan.Changes)}

\* C29: after CreatePlan no path is both in plan.Failed and the Path of an
\* entry of plan.Changes, and plan.Failed lists no path twice.
C29_FailedApartFromChanges ==
    PlanDone =>
        /\ \A i \in 1..Len(plan.Failed) : plan.Failed[i] \notin ChangedPaths
        /\ \A i, j \in 1..Len(plan.Failed) : i # j => plan.Failed[i] # plan.Failed[j]

-----------------------------------------------------------------------------
(* Several diff blocks for one path (SpecPlan).                            *)

\* The file system after the diffs from position k on that resolve to path
\* were corrected and applied in turn, each on the file the ones before it
\* left; a diff that fails leaves the file as it was.
RECURSIVE inTurn(_, _, _, _)
inTurn(fsys, diffs, k, path) ==
    IF k > Len(diffs) THEN fsys
    ELSE IF Resolve(fsys, diffs[k].FilePath) # path THEN inTurn(fsys, diffs, k + 1, path)
    ELSE LET patched == CorrectDiff(fsys, diffs[k])
             result  == IF patched.err THEN [lines |-> <<>>, err |-> TRUE]
                        ELSE applyPatch(fsys, diffs[k].FilePath, patched.text)
         IN  inTurn(IF result.err THEN fsys ELSE Put(fsys, path, TextOf(result.lines)),
                    diffs, k + 1, path)

\* The positions of the diff blocks that resolve to path
DiffBlocksFor(path) == {k \in 1..Len(allBlocks) : DiffBlockAt(k) /\ DiffBlockPath(k) = path}

\* C30: when two or more diff blocks of the input target one path and the
\* plan's change for the path comes from a diff, its content is what the
\* blocks give when each is corrected and applied on top of the result of
\* the earlier ones.
C30_DiffsApplyInTurn ==
    PlanDone =>
        \A i \in 1..Len(plan.Changes) :
            (/\ plan.Changes[i].Source = "diff"
             /\ Cardinality(DiffBlocksFor(plan.Changes[i].Path)) >= 2)
            => TextOf(plan.Changes[i].Content)
                   = inTurn(files, extractDiffBlocksFromParsed(allBlocks), 1,
                            plan.Changes[i].Path)[plan.Changes[i].Path]

====
